---- MODULE Spec2Model ----
(***************************************************************************)
(* A model of the console log-line formatter of zenif / fluxlog:           *)
(*   - the log-line template engine  FluxLogger.__parse_log_line,          *)
(*   - the ANSI-aware text wrapper    FluxLogger.__wrap_text,              *)
(*   - the value sanitizer/renderer   FluxLogger.__sanitize_unsafe_objects *)
(*                                    and FluxLogger.__format_variable.    *)
(* A Python string is a sequence of one-character tokens.  Characters that *)
(* have no printable ASCII spelling are named: ESC is \033 (\x1B), ELL is  *)
(* the one-character ellipsis U+2026, MID is the dot operator U+22C5, NL   *)
(* is the newline.                                                         *)
(***************************************************************************)
EXTENDS Integers, Sequences, FiniteSets, TLC

-----------------------------------------------------------------------------
(* Characters and the character classes of the two escape patterns.        *)

ESC == "ESC"
ELL == "ELL"
MID == "MID"
NL  == "NL"
\* the double quote, the backslash and the backtick
DQ  == "DQ"
BSL == "BSL"
BQ  == "BQ"

Digits == {"0", "1", "2", "3", "4", "5", "6", "7", "8", "9"}

LowerSeq == <<"a", "b", "c", "d", "e", "f", "g", "h", "i", "j", "k", "l", "m",
              "n", "o", "p", "q", "r", "s", "t", "u", "v", "w", "x", "y", "z">>
UpperSeq == <<"A", "B", "C", "D", "E", "F", "G", "H", "I", "J", "K", "L", "M",
              "N", "O", "P", "Q", "R", "S", "T", "U", "V", "W", "X", "Y", "Z">>

Range(s) == {s[k] : k \in DOMAIN s}

LowerLetters == Range(LowerSeq)
UpperLetters == Range(UpperSeq)

\* [0-?] : 0x30 .. 0x3F
ParamBytes == Digits \cup {":", ";", "<", "=", ">", "?"}
\* [ -/] : 0x20 .. 0x2F
InterBytes == {" ", "!", DQ, "#", "$", "%", "&", "'", "(", ")", "*", "+",
               ",", "-", ".", "/"}
\* [@-_] : 0x40 .. 0x5F
AtToUnderscore == {"@"} \cup UpperLetters \cup {"[", BSL, "]", "^", "_"}
\* [@-~] : 0x40 .. 0x7E
FinalBytes == AtToUnderscore \cup {BQ} \cup LowerLetters \cup {"{", "|", "}", "~"}
\* [@-Z] and [\-_] : 0x40 .. 0x5A and 0x5C .. 0x5F
TwoByteFinals == AtToUnderscore \ {"["}

\* \s of the re module, as far as the model's alphabet has it
WhiteSpace == {" ", NL}

-----------------------------------------------------------------------------
(* Sequence helpers (str slicing, str * n, substring test).                *)

Min(a, b) == IF a < b THEN a ELSE b
Max(a, b) == IF a > b THEN a ELSE b

\* s[:n] of Python for any integer n (negative n counts from the end)
Take(s, n) ==
  LET m == IF n < 0 THEN Max(Len(s) + n, 0) ELSE Min(n, Len(s))
  IN  SubSeq(s, 1, m)

\* s[-n:] of Python for n >= 0; s[-0:] is s[0:], the whole string.  For
\* n < 0 it is s[k:] with k = -n.
LastN(s, n) ==
  IF n = 0 THEN s
  ELSE IF n > 0 THEN SubSeq(s, Max(Len(s) - n, 0) + 1, Len(s))
  ELSE SubSeq(s, Min(-n, Len(s)) + 1, Len(s))

RECURSIVE Times(_, _)
\* s * n of Python: the empty string for n <= 0
Times(s, n) == IF n <= 0 THEN <<>> ELSE s \o Times(s, n - 1)

\* the `in` operator on strings
Contains(hay, needle) ==
  \E p \in 0..(Len(hay) - Len(needle)) :
     SubSeq(hay, p + 1, p + Len(needle)) = needle

StartsWith(s, c) == Len(s) >= 1 /\ s[1] = c

-----------------------------------------------------------------------------
(* Escape-sequence stripping.                                              *)

RECURSIVE SkipWhile(_, _, _)
\* the first position >= q of s that holds no character of class cls
SkipWhile(s, q, cls) ==
  IF q <= Len(s) /\ s[q] \in cls THEN SkipWhile(s, q + 1, cls) ELSE q

\* \033[@-_][0-?]*[ -/]*[@-~] matched at position p: the position of the
\* last character of the match, 0 for no match.  The three classes are
\* disjoint, so the greedy match is the only one.
EngineMatchEnd(s, p) ==
  IF ~(p + 1 <= Len(s) /\ s[p] = ESC /\ s[p + 1] \in AtToUnderscore) THEN 0
  ELSE LET q == SkipWhile(s, SkipWhile(s, p + 2, ParamBytes), InterBytes)
       IN  IF q <= Len(s) /\ s[q] \in FinalBytes THEN q ELSE 0

\* \x1B(?:[@-Z\\-_]|\[[0-?]*[ -/]*[@-~]) matched at position p
WrapMatchEnd(s, p) ==
  IF ~(p + 1 <= Len(s) /\ s[p] = ESC) THEN 0
  ELSE IF s[p + 1] \in TwoByteFinals THEN p + 1
  ELSE IF s[p + 1] # "[" THEN 0
  ELSE LET q == SkipWhile(s, SkipWhile(s, p + 2, ParamBytes), InterBytes)
       IN  IF q <= Len(s) /\ s[q] \in FinalBytes THEN q ELSE 0

RECURSIVE RemoveFrom(_, _, _)
\* re.sub("", s) from position p on, for the pattern chosen by `engine`
RemoveFrom(s, p, engine) ==
  IF p > Len(s) THEN <<>>
  ELSE LET e == IF engine THEN EngineMatchEnd(s, p) ELSE WrapMatchEnd(s, p)
       IN  IF e > 0 THEN RemoveFrom(s, e + 1, engine)
           ELSE <<s[p]>> \o RemoveFrom(s, p + 1, engine)

\* FluxLogger.__remove_ansi
remove_ansi(text) == RemoveFrom(text, 1, TRUE)

\* ansi_escape.sub("", s) of __wrap_text
ansi_escape_sub(s) == RemoveFrom(s, 1, FALSE)

\* visible_length of __wrap_text
visible_length(s) == Len(ansi_escape_sub(s))

-----------------------------------------------------------------------------
(* Python values.  A value carries its type in t; a dict is a function     *)
(* from key names to values; an ordered dict whose item order matters (a   *)
(* parameter, the value of an if action) is a sequence of items.           *)

PyStr(s)   == [t |-> "str", s |-> s]
PyInt(n)   == [t |-> "int", n |-> n]
PyBool(b)  == [t |-> "bool", b |-> b]
PyDict(d)  == [t |-> "dict", d |-> d]
PyList(l)  == [t |-> "list", l |-> l]
PyTuple(l) == [t |-> "tuple", l |-> l]
PyItems(l) == [t |-> "dict", items |-> l]

\* the dict {}
NoKeys == [k \in {} |-> PyInt(0)]

\* one item k: v of an ordered dict
Item(k, v) == [k |-> k, v |-> v]

\* dict.get(key, default)
Get(d, key, default) == IF key \in DOMAIN d THEN d[key] ELSE default

\* str(n) for an integer n >= 0
RECURSIVE IntToStr(_)
IntToStr(n) ==
  LET digit(k) == CHOOSE c \in Digits :
                    c = <<"0", "1", "2", "3", "4", "5", "6", "7", "8", "9">>[k + 1]
  IN  IF n < 10 THEN <<digit(n)>> ELSE IntToStr(n \div 10) \o <<digit(n % 10)>>

RECURSIVE DigitsValue(_)
\* the number a string of digits spells
DigitsValue(s) ==
  IF s = <<>> THEN 0
  ELSE LET d == CHOOSE k \in 0..9 : IntToStr(k) = <<s[Len(s)]>>
       IN  10 * DigitsValue(SubSeq(s, 1, Len(s) - 1)) + d

\* int(s): [ok, n]; a ValueError (ok = FALSE) unless s is a string of digits.
\* (int also accepts a sign, blanks and underscores; the strings of the
\* model have none.)
ParseInt(s) ==
  IF s # <<>> /\ \A k \in DOMAIN s : s[k] \in Digits
  THEN [ok |-> TRUE, n |-> DigitsValue(s)]
  ELSE [ok |-> FALSE, n |-> 0]

\* str.lower, str.upper, str.swapcase on the letters a-z, A-Z
IndexIn(seq, c) == CHOOSE k \in DOMAIN seq : seq[k] = c
LowerChar(c) == IF c \in UpperLetters THEN LowerSeq[IndexIn(UpperSeq, c)] ELSE c
UpperChar(c) == IF c \in LowerLetters THEN UpperSeq[IndexIn(LowerSeq, c)] ELSE c
SwapChar(c) == IF c \in UpperLetters THEN LowerChar(c) ELSE UpperChar(c)
Cased(c) == c \in UpperLetters \cup LowerLetters
lower(s) == [k \in DOMAIN s |-> LowerChar(s[k])]
upper(s) == [k \in DOMAIN s |-> UpperChar(s[k])]
swapcase(s) == [k \in DOMAIN s |-> SwapChar(s[k])]
\* str.capitalize: the first character upper-cased, the rest lower-cased
capitalize(s) == [k \in DOMAIN s |-> IF k = 1 THEN UpperChar(s[k]) ELSE LowerChar(s[k])]
\* str.title: a cased character is upper-cased after an uncased one (or at
\* the start) and lower-cased after a cased one
title(s) ==
  [k \in DOMAIN s |-> IF k > 1 /\ Cased(s[k - 1]) THEN LowerChar(s[k]) ELSE UpperChar(s[k])]

\* str.ljust, str.rjust, str.center for a one-character fill
ljust(s, width, fill) == s \o Times(fill, width - Len(s))
rjust(s, width, fill) == Times(fill, width - Len(s)) \o s
\* CPython: left = marg/2 + (marg & width & 1)
center(s, width, fill) ==
  LET marg == width - Len(s)
      left == (marg \div 2) + (IF marg % 2 = 1 /\ width % 2 = 1 THEN 1 ELSE 0)
  IN  IF marg <= 0 THEN s
      ELSE Times(fill, left) \o s \o Times(fill, marg - left)

-----------------------------------------------------------------------------
(* The words the engine compares parameter values with.                    *)

\* the string literals of the directives, of the colour maps and of the
\* callers, by name
Word ==
  [ left |-> <<"l", "e", "f", "t">>,
    right |-> <<"r", "i", "g", "h", "t">>,
    center |-> <<"c", "e", "n", "t", "e", "r">>,
    upper |-> <<"u", "p", "p", "e", "r">>,
    lower |-> <<"l", "o", "w", "e", "r">>,
    capitalize |-> <<"c", "a", "p", "i", "t", "a", "l", "i", "z", "e">>,
    cap |-> <<"c", "a", "p">>,
    swapcase |-> <<"s", "w", "a", "p", "c", "a", "s", "e">>,
    swap |-> <<"s", "w", "a", "p">>,
    title |-> <<"t", "i", "t", "l", "e">>,
    exclude |-> <<"e", "x", "c", "l", "u", "d", "e">>,
    include |-> <<"i", "n", "c", "l", "u", "d", "e">>,
    end |-> <<"e", "n", "d">>,
    middle |-> <<"m", "i", "d", "d", "l", "e">>,
    mid |-> <<"m", "i", "d">>,
    beginning |-> <<"b", "e", "g", "i", "n", "n", "i", "n", "g">>,
    start |-> <<"s", "t", "a", "r", "t">>,
    dynamic |-> <<"d", "y", "n", "a", "m", "i", "c">>,
    breakpoint |-> <<"b", "r", "e", "a", "k", "p", "o", "i", "n", "t">>,
    parameters |-> <<"p", "a", "r", "a", "m", "e", "t", "e", "r", "s">>,
    white |-> <<"w", "h", "i", "t", "e">>,
    blue |-> <<"b", "l", "u", "e">>,
    green |-> <<"g", "r", "e", "e", "n">>,
    yellow |-> <<"y", "e", "l", "l", "o", "w">>,
    red |-> <<"r", "e", "d">>,
    magenta |-> <<"m", "a", "g", "e", "n", "t", "a">>,
    cyan |-> <<"c", "y", "a", "n">>,
    black |-> <<"b", "l", "a", "c", "k">>,
    reset |-> <<"r", "e", "s", "e", "t">>,
    module |-> <<"<", "m", "o", "d", "u", "l", "e", ">">>,
    main |-> <<"m", "a", "i", "n">>,
    fluxlog_py |-> <<"f", "l", "u", "x", "l", "o", "g", ".", "p", "y">>,
    t_py |-> <<"t", ".", "p", "y">> ]

\* colorama: Style.RESET_ALL, Style.DIM, Style.NORMAL
RESET_ALL == <<ESC, "[", "0", "m">>
DIM == <<ESC, "[", "2", "m">>
NORMAL == <<ESC, "[", "2", "2", "m">>

\* colorama's code_to_chars: CSI + str(code) + "m"
CodeToChars(code) == <<ESC, "[">> \o IntToStr(code) \o <<"m">>

\* the attributes of colorama's Fore (AnsiFore), by upper-cased name; Back
\* (AnsiBack) has the same names with codes 10 higher
ForeCodes ==
  (upper(Word.black) :> 30) @@ (upper(Word.red) :> 31) @@ (upper(Word.green) :> 32) @@
  (upper(Word.yellow) :> 33) @@ (upper(Word.blue) :> 34) @@ (upper(Word.magenta) :> 35) @@
  (upper(Word.cyan) :> 36) @@ (upper(Word.white) :> 37) @@ (upper(Word.reset) :> 39)

\* getattr(Fore, name, "") and getattr(Back, name, "")
ForeAttr(name) == IF name \in DOMAIN ForeCodes THEN CodeToChars(ForeCodes[name]) ELSE <<>>
BackAttr(name) == IF name \in DOMAIN ForeCodes THEN CodeToChars(ForeCodes[name] + 10) ELSE <<>>

-----------------------------------------------------------------------------
(* FluxLogger.__parse_log_line: the helpers of the parameter walk.  The    *)
(* walk of one segment is a record st: value, visible, color, style, the   *)
(* working copy of the parameters, and raised, set when the step raised    *)
(* an exception (which leaves __parse_log_line and the log call).          *)

Raise(st) == [st EXCEPT !.raised = TRUE]

\* return_values(value, default): [ok, v]; ok = FALSE for the raised
\* Exception("Value ... must be type ...")
return_values(value, default) ==
  IF value.t # default.t THEN [ok |-> FALSE, v |-> default]
  ELSE IF value.t = "dict"
  THEN [ok |-> TRUE,
        v  |-> PyDict([k \in DOMAIN value.d \cup DOMAIN default.d |->
                         IF k \in DOMAIN value.d THEN value.d[k] ELSE default.d[k]])]
  ELSE IF value.t = "str" /\ Len(value.s) < 1 THEN [ok |-> TRUE, v |-> default]
  ELSE [ok |-> TRUE, v |-> value]

\* a value that arithmetic takes as a number (an int or a bool), and the
\* number it is taken as
IsNum(v) == v.t \in {"int", "bool"}
Num(v) == IF v.t = "bool" THEN (IF v.b THEN 1 ELSE 0) ELSE v.n

\* a str of length one, as ljust, rjust and center require of the fill
IsFillChar(v) == v.t = "str" /\ Len(v.s) = 1

AlignDefault ==
  PyDict([alignment |-> PyStr(Word.left), width |-> PyInt(10), fillchar |-> PyStr(<<" ">>)])

\* if pname == "align"
Align(st, pvalue) ==
  LET rv == return_values(pvalue, AlignDefault)
      d  == rv.v.d
      width == Num(d.width) + (Len(st.value) - Len(remove_ansi(st.value)))
      a  == lower(d.alignment.s)
      known == a \in {Word.left, <<"l">>, Word.right, <<"r">>, Word.center, <<"c">>}
  IN  IF ~rv.ok \/ ~IsNum(d.width) \/ d.alignment.t # "str" THEN Raise(st)
      ELSE IF ~known THEN st
      ELSE IF ~IsFillChar(d.fillchar) THEN Raise(st)
      ELSE IF a \in {Word.left, <<"l">>}
           THEN [st EXCEPT !.value = ljust(st.value, width, d.fillchar.s)]
      ELSE IF a \in {Word.right, <<"r">>}
           THEN [st EXCEPT !.value = rjust(st.value, width, d.fillchar.s)]
      ELSE [st EXCEPT !.value = center(st.value, width, d.fillchar.s)]

\* if pname == "case"
Case(st, pvalue) ==
  LET rv == return_values(pvalue, PyStr(Word.upper))
      m  == lower(rv.v.s)
  IN  IF ~rv.ok THEN Raise(st)
      ELSE IF m \in {Word.upper, <<"u">>} THEN [st EXCEPT !.value = upper(st.value)]
      ELSE IF m \in {Word.lower, <<"l">>} THEN [st EXCEPT !.value = lower(st.value)]
      ELSE IF m \in {Word.capitalize, Word.cap, <<"c">>}
           THEN [st EXCEPT !.value = capitalize(st.value)]
      ELSE IF m \in {Word.swapcase, Word.swap, <<"s">>}
           THEN [st EXCEPT !.value = swapcase(st.value)]
      ELSE IF m \in {Word.title, <<"t">>} THEN [st EXCEPT !.value = title(st.value)]
      ELSE st

FilterDefault ==
  PyDict([mode |-> PyStr(Word.exclude), items |-> PyList(<<>>), replace |-> PyStr(<<>>),
          case_sensitive |-> PyBool(FALSE)])

RECURSIVE FilterLoop(_, _, _, _, _)
\* for item in pvalue["items"]: the value after the items from k on; the
\* test reads the value the earlier items left
FilterLoop(value, items, k, d, exclude) ==
  IF k > Len(items) THEN value
  ELSE LET cs   == d.case_sensitive.b
           item == IF cs THEN items[k] ELSE lower(items[k])
           hay  == IF cs THEN value ELSE lower(value)
           hit  == Contains(hay, item)
       IN  FilterLoop(IF hit = exclude THEN d.replace.s ELSE value,
                      items, k + 1, d, exclude)

\* if pname == "filter"
Filter(st, pvalue) ==
  LET rv == return_values(pvalue, FilterDefault)
      d  == rv.v.d
      m  == lower(d.mode.s)
  IN  IF ~rv.ok \/ d.mode.t # "str" THEN Raise(st)
      ELSE IF m \in {Word.exclude, <<"e">>}
           THEN [st EXCEPT !.value = FilterLoop(st.value, d.items.l, 1, d, TRUE)]
      ELSE IF m \in {Word.include, <<"i">>}
           THEN [st EXCEPT !.value = FilterLoop(st.value, d.items.l, 1, d, FALSE)]
      ELSE st

AffixDefault == PyDict([prefix |-> PyStr(<<>>), suffix |-> PyStr(<<>>)])

\* if pname == "affix"
Affix(st, pvalue) ==
  LET rv == return_values(pvalue, AffixDefault)
      d  == rv.v.d
  IN  IF ~rv.ok \/ d.prefix.t # "str" \/ d.suffix.t # "str" THEN Raise(st)
      ELSE [st EXCEPT !.value = d.prefix.s \o st.value \o d.suffix.s]

TruncateDefault ==
  PyDict([width |-> PyInt(10), ending |-> PyStr(<<ELL>>), position |-> PyStr(Word.end)])

\* if pname == "truncate"
Truncate(st, pvalue) ==
  LET rv == return_values(pvalue, TruncateDefault)
      d  == rv.v.d
      value == st.value
      width == Num(d.width) + (Len(value) - Len(remove_ansi(value)))
      ending == d.ending.s
      keep == width - Len(ending)
      left_width == keep \div 2
      right_width == keep - left_width
      pos == d.position.s
      at_end == pos \in {Word.end, Word.right, <<"e">>, <<"r">>}
      at_center == pos \in {Word.center, Word.middle, Word.mid, <<"m">>, <<"c">>}
      at_start == pos \in {Word.beginning, Word.start, Word.left, <<"b">>, <<"s">>, <<"l">>}
  IN  IF ~rv.ok \/ ~IsNum(d.width) THEN Raise(st)
      ELSE IF ~(Len(value) > width) \/ d.position.t # "str" THEN st
      ELSE IF ~(at_end \/ at_center \/ at_start) THEN st
      ELSE IF d.ending.t # "str" THEN Raise(st)
      ELSE IF at_end THEN [st EXCEPT !.value = Take(value, keep) \o ending]
      ELSE IF at_center
           THEN [st EXCEPT !.value =
                   Take(value, left_width) \o ending \o LastN(value, right_width)]
      ELSE [st EXCEPT !.value = ending \o LastN(value, keep)]

\* a variant of the visible directive that compares the threshold of a
\* ">N" string with the width the wrong way round
VisibleReversed(st, pvalue, terminal_width) ==
  IF pvalue.t = "bool" THEN [st EXCEPT !.visible = pvalue.b]
  ELSE IF pvalue.t = "str"
  THEN LET n == ParseInt(Tail(pvalue.s))
       IN  IF StartsWith(pvalue.s, ">")
           THEN IF n.ok THEN [st EXCEPT !.visible = n.n >= terminal_width] ELSE Raise(st)
           ELSE IF StartsWith(pvalue.s, "<")
           THEN IF n.ok THEN [st EXCEPT !.visible = terminal_width < n.n] ELSE Raise(st)
           ELSE st
  ELSE IF pvalue.t = "int" THEN [st EXCEPT !.visible = terminal_width >= pvalue.n]
  ELSE st

\* if pname == "visible"
Visible(st, pvalue, terminal_width) ==
  IF pvalue.t = "bool" THEN [st EXCEPT !.visible = pvalue.b]
  ELSE IF pvalue.t = "str"
  THEN LET n == ParseInt(Tail(pvalue.s))
       IN  IF StartsWith(pvalue.s, ">")
           THEN IF n.ok THEN [st EXCEPT !.visible = terminal_width >= n.n] ELSE Raise(st)
           ELSE IF StartsWith(pvalue.s, "<")
           THEN IF n.ok THEN [st EXCEPT !.visible = terminal_width < n.n] ELSE Raise(st)
           ELSE st
  ELSE IF pvalue.t = "int" THEN [st EXCEPT !.visible = terminal_width >= pvalue.n]
  ELSE st

ColorDefault == PyDict([foreground |-> PyTuple(<<>>), background |-> PyTuple(<<>>)])

\* lmap: the colour of the level key, lmap.get(level, "white")
lmap(level) ==
  CASE level = "info" -> Word.white
    [] level = "debug" -> Word.blue
    [] level = "success" -> Word.green
    [] level = "warning" -> Word.yellow
    [] level = "error" -> Word.red
    [] level = "critical" -> Word.magenta
    [] OTHER -> Word.white

\* cmap: the colour of each segment key
cmap(level) ==
  [timestamp |-> Word.green, filename |-> Word.magenta, wrapfunc |-> Word.yellow,
   linenum |-> Word.cyan, level |-> lmap(level)]

\* if pname == "color"; a key that cmap does not have is a KeyError
Color(st, pvalue, level, key) ==
  LET rv == return_values(pvalue, ColorDefault)
      d  == rv.v.d
  IN  IF ~rv.ok THEN Raise(st)
      ELSE IF d.foreground = PyStr(Word.dynamic)
      THEN IF key \in DOMAIN cmap(level)
           THEN [st EXCEPT !.color = [d EXCEPT !.foreground = PyStr(cmap(level)[key])]]
           ELSE Raise([st EXCEPT !.color = d])
      ELSE [st EXCEPT !.color = d]

StyleKeys == <<"bold", "italic", "underline", "blink", "reverse">>
StyleCode(k) == <<ESC, "[", <<"1", "3", "4", "5", "7">>[k], "m">>
StyleDefault == PyDict([k \in Range(StyleKeys) |-> PyBool(FALSE)])

RECURSIVE StyleLoop(_, _, _)
StyleLoop(style, d, k) ==
  IF k > Len(StyleKeys) THEN style
  ELSE StyleLoop(IF d[StyleKeys[k]].b THEN Append(style, StyleCode(k)) ELSE style,
                 d, k + 1)

\* if pname == "style"
Style(st, pvalue) ==
  LET rv == return_values(pvalue, StyleDefault)
  IN  IF ~rv.ok THEN Raise(st)
      ELSE [st EXCEPT !.style = StyleLoop(st.style, rv.v.d, 1)]

PadDefault == PyDict([left |-> PyInt(0), right |-> PyInt(0), fillchar |-> PyStr(<<" ">>)])

\* if pname == "pad" (the fillchar of the model's templates is a str)
Pad(st, pvalue) ==
  LET rv == return_values(pvalue, PadDefault)
      d  == rv.v.d
  IN  IF ~rv.ok \/ ~IsNum(d.left) \/ ~IsNum(d.right) THEN Raise(st)
      ELSE [st EXCEPT !.value =
              Times(d.fillchar.s, Num(d.left)) \o st.value
                \o Times(d.fillchar.s, Num(d.right))]

RepeatDefault == PyDict([count |-> PyInt(1)])

\* if pname == "repeat"
Repeat(st, pvalue) ==
  LET rv == return_values(pvalue, RepeatDefault)
  IN  IF ~rv.ok \/ ~IsNum(rv.v.d.count) THEN Raise(st)
      ELSE [st EXCEPT !.value = Times(st.value, Num(rv.v.d.count))]

IfDefault == PyDict([condition |-> PyDict(NoKeys), action |-> PyDict(NoKeys)])
BreakpointDefault == PyDict([min |-> PyInt(0), max |-> PyInt(9999)])

\* list.insert(index, x) for 0 <= index
InsertAt(l, index, x) ==
  LET at == Min(index, Len(l))
  IN  SubSeq(l, 1, at) \o <<x>> \o SubSeq(l, at + 1, Len(l))

RECURSIVE SpliceAtFront(_, _, _, _)
\* a variant of the splice that inserts every item at i + 1, which leaves
\* the items in reverse order
SpliceAtFront(parameters, items, i, j) ==
  IF j >= Len(items) THEN parameters
  ELSE SpliceAtFront(InsertAt(parameters, i + 1, <<items[j + 1]>>), items, i, j + 1)

RECURSIVE Splice(_, _, _, _)
\* for k, v in action value items: parameters.insert(i + j + 1, {k: v})
Splice(parameters, items, i, j) ==
  IF j >= Len(items) THEN parameters
  ELSE Splice(InsertAt(parameters, i + j + 1, <<items[j + 1]>>), items, i, j + 1)

\* if pname == "if"; i is the 0-based position of the parameter in the walk
If(st, pvalue, terminal_width, i) ==
  LET rv == return_values(pvalue, IfDefault)
      d  == rv.v.d
      isbp == d.condition.t = "dict" /\
              Get(d.condition.d, "type", PyStr(<<>>)) = PyStr(Word.breakpoint)
      bp == return_values(Get(d.condition.d, "value", PyStr(<<>>)), BreakpointDefault)
      ready == isbp /\ terminal_width >= Num(bp.v.d.min) /\ terminal_width < Num(bp.v.d.max)
      items == Get(d.action.d, "value", PyItems(<<>>)).items
  IN  IF ~rv.ok \/ d.condition.t # "dict" THEN Raise(st)
      ELSE IF isbp /\ (~bp.ok \/ ~IsNum(bp.v.d.min) \/ ~IsNum(bp.v.d.max))
      THEN Raise(st)
      ELSE IF ~ready THEN st
      ELSE IF d.action.t # "dict" THEN Raise(st)
      ELSE IF Get(d.action.d, "type", PyStr(<<>>)) = PyStr(Word.parameters)
      THEN [st EXCEPT !.parameters = Splice(st.parameters, items, i, 0)]
      ELSE st

\* one pass of the body of `for parameter in parameters`, for the parameter
\* at 0-based position i
ApplyParameter(st, i, terminal_width, level, key) ==
  LET parameter == st.parameters[i + 1]
      pname  == parameter[1].k
      pvalue == parameter[1].v
  IN  IF Len(parameter) # 1 THEN Raise(st)
      ELSE CASE pname = "align" -> Align(st, pvalue)
             [] pname = "case" -> Case(st, pvalue)
             [] pname = "filter" -> Filter(st, pvalue)
             [] pname = "affix" -> Affix(st, pvalue)
             [] pname = "truncate" -> Truncate(st, pvalue)
             [] pname = "visible" -> Visible(st, pvalue, terminal_width)
             [] pname = "color" -> Color(st, pvalue, level, key)
             [] pname = "style" -> Style(st, pvalue)
             [] pname = "pad" -> Pad(st, pvalue)
             [] pname = "repeat" -> Repeat(st, pvalue)
             [] pname = "if" -> If(st, pvalue, terminal_width, i)
             [] OTHER -> st

\* rgb_to_ansi: int(x / 255 * 5) is the floor of 5x/255 for x in 0..255
rgb_to_ansi(r, g, b, fg) ==
  LET color_code == 16 + 36 * ((r * 5) \div 255) + 6 * ((g * 5) \div 255)
                       + ((b * 5) \div 255)
  IN  <<ESC, "[">> \o (IF fg THEN <<"3", "8">> ELSE <<"4", "8">>)
        \o <<";", "5", ";">> \o IntToStr(color_code) \o <<"m">>

RECURSIVE Join(_)
\* "".join(style)
Join(l) == IF l = <<>> THEN <<>> ELSE Head(l) \o Join(Tail(l))

\* a variant of colorize that emits the value alone
colorize_plain(value, color, style) == value

\* colorize(value, color, style)
colorize(value, color, style) ==
  LET code(side, fg) ==
        LET c == Get(color, side, PyTuple(<<>>))
        IN  IF c.t = "tuple" /\ Len(c.l) = 3 THEN rgb_to_ansi(c.l[1], c.l[2], c.l[3], fg)
            ELSE IF c.t = "str"
                 THEN IF fg THEN ForeAttr(upper(c.s)) ELSE BackAttr(upper(c.s))
            ELSE <<>>
  IN  code("foreground", TRUE) \o code("background", FALSE) \o Join(style) \o value
        \o RESET_ALL

-----------------------------------------------------------------------------
(* The state of a FluxLogger and of its environment.                       *)

VARIABLES
  rs_format,           \* self.rs_log_line["format"]: the segment list
  previous_timestamp,  \* self._previous_timestamp
  clock,               \* datetime.datetime.now(), in seconds
  columns,             \* shutil.get_terminal_size().columns
  pc,                  \* where the log call is: idle, segment, walk, emit, finish
  raised,              \* the log call was left by an exception
  level,               \* __log's level
  context,             \* __log's context
  terminal_width,      \* __log's terminal_width
  prompt_length,       \* self.__prompt_length
  formatted_log_line,  \* __parse_log_line's formatted_log_line
  message_space,       \* self._message_space
  seg,                 \* the 1-based position of `segment` in the format
  seg_width,           \* __parse_log_line's terminal_width
  walk,                \* value, visible, color, style, parameters of the segment
  i,                   \* __parse_log_line's i
  applied,             \* history: the parameters the walk has passed, in order
  added,               \* history: what the last segment added to the prompt length
  emitted,             \* history: the text the last segment appended
  before,              \* history: the value before the last pass of the walk
  returned             \* history: the arguments and results of the last call that returned

VARIABLES
  wrapper,             \* a call of __wrap_text: its arguments and its result
  renderer,            \* a call of __format_variable: its argument and its result
  stripper,            \* a string that is stripped of its escape sequences, twice
  threads,             \* the log calls of the threads that share the logger: the locals of each
  self_repr_id,        \* self.__repr_id
  rs_metadata,         \* self.rs_metadata: the rules of the metadata strip
  rs_filtering,        \* self.rs_filtering: min_level, exclude_messages, include_only_messages
  caller,              \* a call of __log up to its message: level, values, the local message
  logger,              \* the construction of a logger: the dict objects, self.defaults, the active rules, the handlers' defaults
  painter,             \* one use of colorize with an RGB triple: the colour, the side, the text
  handler,             \* a StreamHandler: output_streams, stream_rulesets, its last call
  groups               \* the SHGroup objects over the handler: self.streams of each

otherVars == <<wrapper, renderer, stripper, threads, self_repr_id, rs_metadata, rs_filtering, caller, logger, painter, handler, groups>>

engineVars ==
  <<rs_format, previous_timestamp, clock, columns, pc, raised, level, context,
    terminal_width, prompt_length, formatted_log_line, message_space, seg,
    seg_width, walk, i, applied, added, emitted, before, returned>>

\* None, where a str is expected
None == <<"None">>

\* a segment of the format: {"type": ..., "value": ..., "parameters": [...]}.
\* The value of a template segment is its key; the value of any other
\* segment is in text.
Template(key, parameters) ==
  [type |-> "template", value |-> key, text |-> <<>>, parameters |-> parameters]
Static(text) ==
  [type |-> "static", value |-> "", text |-> text, parameters |-> <<>>]

\* a parameter {name: pvalue}
P(name, pvalue) == <<Item(name, pvalue)>>

\* str(x) of a context value
Str(v) == IF v.t = "int" THEN IntToStr(v.n) ELSE v.s

-----------------------------------------------------------------------------
(* Timestamps.  The clock counts seconds from 2024-01-01 00:00:00.         *)

MaxClock == 1

\* the rule timestamps.format, "%Y-%m-%d %H:%M:%S", and the format
\* "%H:%M:%S" that __log and __parse_log_line pass at widths of 85 or less
RuleFormat == "%Y-%m-%d %H:%M:%S"
ShortFormat == "%H:%M:%S"

\* datetime.strftime(format) of the time `now`, for now < 10
strftime(now, format) ==
  LET hms == <<"0", "0", ":", "0", "0", ":", "0">> \o IntToStr(now)
  IN  IF format = ShortFormat THEN hms
      ELSE <<"2", "0", "2", "4", "-", "0", "1", "-", "0", "1", " ">> \o hms

\* __define_timestamp(no_blank, format) at time `now`; always_show is False
define_timestamp(now, previous, no_blank, format) ==
  LET timestamp == strftime(now, format)
  IN  IF no_blank THEN timestamp
      ELSE IF strftime(now, RuleFormat) = previous
           THEN <<ESC, "[">> \o IntToStr(Len(strftime(now, format))) \o <<"C">>
      ELSE timestamp

\* the format argument of the calls in __log and __parse_log_line
WidthFormat(width) == IF width > 85 THEN RuleFormat ELSE ShortFormat

-----------------------------------------------------------------------------
(* The log call: __log up to the call of __parse_log_line, the segment     *)
(* loop of __parse_log_line, and what __log keeps of its result.           *)

\* self.__levels[level]["name"]["display"].upper()
LevelDisplay(lv) ==
  CASE lv = "info" -> upper(<<"i", "n", "f", "o">>)
    [] lv = "error" -> upper(<<"e", "r", "r", "o", "r">>)
    [] lv = "debug" -> upper(<<"d", "e", "b", "u", "g">>)
    [] lv = "warning" -> upper(<<"w", "a", "r", "n", "i", "n", "g">>)

\* the walk of a segment before its first parameter
NewWalk(value, parameters) ==
  [value |-> value, visible |-> TRUE, color |-> NoKeys, style |-> <<>>,
   parameters |-> parameters, raised |-> FALSE]

\* segment["value"], which the engine compares with "timestamp" for every
\* segment, a static one too
SegmentValue(segment) ==
  IF segment.type = "template" THEN segment.value
  ELSE IF segment.text = <<"t", "i", "m", "e", "s", "t", "a", "m", "p">> THEN "timestamp"
  ELSE "static"

\* lines 390-404 and 639-644: the context is built and the segment loop
\* is entered; an empty format is an Exception
LogStart(lv, metadata) ==
  /\ pc = "idle"
  /\ level' = lv
  /\ terminal_width' = columns
  /\ context' =
       [timestamp |-> PyStr(define_timestamp(clock, previous_timestamp, FALSE,
                                              WidthFormat(columns))),
        filename |-> PyStr(metadata.file_name),
        wrapfunc |-> PyStr(metadata.wrapping_func),
        linenum  |-> metadata.line_number,
        level    |-> PyStr(LevelDisplay(lv))]
  /\ prompt_length' = 0
  /\ formatted_log_line' = <<>>
  /\ seg' = 1
  /\ applied' = <<>>
  /\ added' = 0
  /\ emitted' = <<>>
  /\ IF rs_format = <<>>
     THEN pc' = "idle" /\ raised' = TRUE
     ELSE pc' = "segment" /\ raised' = FALSE
  /\ UNCHANGED <<rs_format, previous_timestamp, clock, columns, message_space,
                 seg_width, walk, i,
                 before, returned>>
  /\ UNCHANGED otherVars

\* lines 645-658: the head of the segment loop
SegmentBegin ==
  /\ pc = "segment"
  /\ LET segment == rs_format[seg]
     IN  /\ seg_width' = columns
         /\ i' = 0
         /\ applied' = <<>>
         /\ IF segment.type # "template"
            THEN /\ walk' = NewWalk(segment.text, <<>>)
                 /\ pc' = "emit"
            ELSE /\ walk' = NewWalk(Str(Get(context, segment.value, PyStr(<<>>))),
                                    segment.parameters)
                 /\ pc' = IF segment.parameters = <<>> THEN "emit" ELSE "walk"
  /\ UNCHANGED <<rs_format, previous_timestamp, clock, columns, raised, level,
                 context, terminal_width, prompt_length, formatted_log_line,
                 message_space, seg, added, emitted,
                 before, returned>>
  /\ UNCHANGED otherVars

\* a variant in which the walk works on the configured list itself
AfterWalkShared(segment, parameters) == [segment EXCEPT !.parameters = parameters]

\* line 658: the walk works on a deep copy of the segment's parameters, so
\* the configured segment is after a pass what it was before, whatever the
\* pass has made of the working list
AfterWalk(segment, parameters) == segment

\* a variant in which the loop runs over the length the list had when the
\* walk began
HasNextFixed(parameters, original, passed) == passed < Len(original)

\* line 659: `for parameter in parameters` goes on while the list, as it is
\* now, has an element after the `passed` ones it has yielded
HasNext(parameters, original, passed) == passed < Len(parameters)

\* lines 659-847: one pass of the parameter loop
WalkStep ==
  /\ pc = "walk"
  /\ LET st == ApplyParameter(walk, i, seg_width, level, rs_format[seg].value)
     IN  /\ walk' = st
         /\ applied' = Append(applied, walk.parameters[i + 1])
         /\ before' = walk.value
         /\ IF st.raised
            THEN /\ pc' = "idle"
                 /\ raised' = TRUE
                 /\ i' = i
            ELSE /\ pc' = IF HasNext(st.parameters, rs_format[seg].parameters, i + 1)
                         THEN "walk" ELSE "emit"
                 /\ raised' = FALSE
                 /\ i' = i + 1
         /\ rs_format' = [rs_format EXCEPT ![seg] = AfterWalk(rs_format[seg], st.parameters)]
  /\ UNCHANGED <<previous_timestamp, clock, columns, level, context,
                 terminal_width, prompt_length, formatted_log_line, message_space,
                 seg, seg_width, added, emitted, returned>>
  /\ UNCHANGED otherVars

\* a variant of lines 849-861 that counts every character of the value,
\* the bytes of its escape sequences too
PromptAmountRaw(segment, value, now, width) ==
  IF SegmentValue(segment) = "timestamp"
  THEN Len(define_timestamp(now, None, TRUE, WidthFormat(width)))
  ELSE Len(value)

\* a variant of lines 849-861 without the branch for the timestamp key
PromptAmountOfValue(segment, value, now, width) == Len(remove_ansi(value))

\* lines 849-861: what the segment adds to self.__prompt_length
PromptAmount(segment, value, now, width) ==
  IF SegmentValue(segment) = "timestamp"
  THEN Len(define_timestamp(now, None, TRUE, WidthFormat(width)))
  ELSE Len(remove_ansi(value))

\* lines 849-894: the tail of the segment loop
Emit ==
  /\ pc = "emit"
  /\ LET segment == rs_format[seg]
         value == IF ~walk.visible THEN <<>> ELSE walk.value
         amount == PromptAmount(segment, value, clock, seg_width)
         text == colorize(value, walk.color, walk.style)
     IN  /\ prompt_length' = prompt_length + amount
         /\ formatted_log_line' = formatted_log_line \o text
         /\ added' = amount
         /\ emitted' = text
  /\ seg' = seg + 1
  /\ pc' = IF seg < Len(rs_format) THEN "segment" ELSE "finish"
  /\ UNCHANGED <<rs_format, previous_timestamp, clock, columns, raised, level,
                 context, terminal_width, message_space, seg_width, walk, i,
                 applied,
                 before, returned>>
  /\ UNCHANGED otherVars

\* lines 404-405 and 526-528: __parse_log_line has returned
Finish ==
  /\ pc = "finish"
  /\ message_space' = terminal_width - prompt_length
  /\ previous_timestamp' = strftime(clock, RuleFormat)
  /\ pc' = "idle"
  /\ returned' = [level |-> level, context |-> context,
                  terminal_width |-> terminal_width,
                  log_line |-> formatted_log_line, prompt_length |-> prompt_length]
  /\ UNCHANGED <<rs_format, clock, columns, raised, level, context, terminal_width,
                 prompt_length, formatted_log_line, seg, seg_width, walk, i,
                 applied, added, emitted,
                 before>>
  /\ UNCHANGED otherVars

\* a second passes
Tick ==
  /\ clock < MaxClock
  /\ clock' = clock + 1
  /\ UNCHANGED <<rs_format, previous_timestamp, columns, pc, raised, level, context,
                 terminal_width, prompt_length, formatted_log_line, message_space,
                 seg, seg_width, walk, i, applied, added, emitted,
                 before, returned>>
  /\ UNCHANGED otherVars

\* the terminal is resized between two log calls
Resize(width) ==
  /\ pc = "idle"
  /\ width # columns
  /\ columns' = width
  /\ UNCHANGED <<rs_format, previous_timestamp, clock, pc, raised, level, context,
                 terminal_width, prompt_length, formatted_log_line, message_space,
                 seg, seg_width, walk, i, applied, added, emitted,
                 before, returned>>
  /\ UNCHANGED otherVars

-----------------------------------------------------------------------------
(* The formats, callers and terminal widths the model draws from.          *)

\* one width in each tier of the default format's breakpoints 75, 85, 95
Widths == {70, 90, 100}


\* the callers: level and metadata of a log call
Calls ==
  { [level |-> "info",
     metadata |-> [file_name |-> Word.t_py, wrapping_func |-> Word.module,
                   line_number |-> PyInt(7)]],
    [level |-> "error",
     metadata |-> [file_name |-> Word.fluxlog_py, wrapping_func |-> Word.main,
                   line_number |-> PyInt(1234)]] }

Dict1(k, v) == PyDict([n \in {k} |-> v])
AlignOf(a, w, f) == PyDict([alignment |-> PyStr(a), width |-> PyInt(w), fillchar |-> PyStr(f)])
BreakpointIf(bounds, items) ==
  PyDict([condition |-> PyDict([type |-> PyStr(Word.breakpoint), value |-> PyDict(bounds)]),
          action |-> PyDict([type |-> PyStr(Word.parameters), value |-> PyItems(items)])])

\* self.defaults["log_line"]["format"]
DefaultFormat ==
  << Template("timestamp", <<P("color", Dict1("foreground", PyStr(Word.dynamic)))>>),
     Static(<<" ">>),
     Template("filename",
       << P("color", Dict1("foreground", PyStr(Word.dynamic))),
          P("visible", PyStr(<<">", "9", "5">>)),
          P("filter", PyDict([items |-> PyList(<<Word.fluxlog_py>>),
                              replace |-> PyStr(<<"i", "n", "t", "e", "r", "n", "a", "l">>)])),
          P("align", Dict1("alignment", PyStr(Word.right))) >>),
     Template("wrapfunc",
       << P("color", Dict1("foreground", PyStr(Word.dynamic))),
          P("visible", PyBool(FALSE)),
          P("truncate", PyDict(NoKeys)),
          P("filter", PyDict([items |-> PyList(<<Word.module>>),
                              replace |-> PyStr(<<"<", " ", "m", "o", "d", "u", "l", "e", " ", ">">>)])),
          P("visible", PyStr(<<">", "7", "5">>)),
          P("if", BreakpointIf([min |-> PyInt(95)],
                    << Item("align", Dict1("alignment", PyStr(Word.left))),
                       Item("affix", Dict1("prefix", PyStr(<<":">>))) >>)),
          P("if", BreakpointIf([max |-> PyInt(95), min |-> PyInt(75)],
                    << Item("truncate", PyDict(NoKeys)),
                       Item("align", Dict1("alignment", PyStr(Word.right))) >>)) >>),
     Template("linenum",
       << P("color", Dict1("foreground", PyStr(Word.dynamic))),
          P("affix", Dict1("prefix", PyStr(NORMAL))),
          P("if", BreakpointIf([max |-> PyInt(75)],
                    << Item("align", AlignOf(Word.right, 3, <<MID>>)),
                       Item("affix", Dict1("prefix", PyStr(DIM))) >>)),
          P("if", BreakpointIf([min |-> PyInt(75)],
                    << Item("align", AlignOf(Word.left, 3, <<" ">>)),
                       Item("affix", Dict1("prefix", PyStr(<<":">>))) >>)) >>),
     Static(<<" ">>),
     Template("level",
       << P("color", Dict1("foreground", PyStr(Word.dynamic))),
          P("align", PyDict([alignment |-> PyStr(Word.left), width |-> PyInt(9)])) >>) >>

\* [Static(" "), Template(linenum, [align{left, 3, " "}])]
ScenarioFormat ==
  << Static(<<" ">>), Template("linenum", <<P("align", AlignOf(Word.left, 3, <<" ">>))>>) >>

\* a format of a timestamp and the level in lower case
TimestampLevelFormat ==
  <<Template("timestamp", <<>>), Template("level", <<P("case", PyStr(Word.lower))>>)>>

\* the formats of the logger of Spec
Formats ==
  { DefaultFormat, ScenarioFormat, TimestampLevelFormat, <<>> }

-----------------------------------------------------------------------------
(* The parameters of the one-segment formats of SpecSegment: every kind of *)
(* parameter, with values of the right and of the wrong shape.             *)

TruncateOf(w, e, pos) ==
  PyDict([width |-> PyInt(w), ending |-> PyStr(e), position |-> PyStr(pos)])

Aligns ==
  { P("align", AlignOf(a, w, f)) :
      a \in {Word.left, Word.right, Word.center}, w \in {3, 6}, f \in {<<" ">>, <<"_">>} }
  \cup { P("align", PyDict(NoKeys)),
         P("align", AlignOf(<<"j", "u", "s", "t", "i", "f", "y">>, 6, <<" ">>)) }

Truncates ==
  { P("truncate", TruncateOf(w, e, pos)) :
      w \in {1, 3, 6}, e \in {<<ELL>>, <<".", ".">>},
      pos \in {Word.end, Word.start, Word.center} }
  \cup { P("truncate", PyDict(NoKeys)), P("truncate", TruncateOf(3, <<>>, Word.end)) }

Others ==
  { P("case", PyStr(Word.upper)), P("case", PyStr(Word.lower)), P("case", PyStr(Word.cap)),
    P("case", PyStr(Word.swap)), P("case", PyStr(Word.title)), P("case", PyStr(<<>>)),
    P("filter", PyDict([items |-> PyList(<<upper(Word.main)>>), replace |-> PyStr(<<"f">>)])),
    P("filter", PyDict([mode |-> PyStr(Word.include), items |-> PyList(<<Word.main, <<"x">>>>),
                        replace |-> PyStr(<<"n", "o">>), case_sensitive |-> PyBool(TRUE)])),
    P("affix", PyDict([prefix |-> PyStr(<<"[">>), suffix |-> PyStr(<<"]">>)])),
    P("affix", Dict1("prefix", PyStr(NORMAL))),
    P("affix", Dict1("suffix", PyStr(DIM))),
    P("visible", PyBool(TRUE)), P("visible", PyBool(FALSE)),
    P("visible", PyStr(<<">", "8", "5">>)), P("visible", PyStr(<<"<", "8", "5">>)),
    P("visible", PyInt(85)), P("visible", PyStr(<<"8", "5">>)),
    P("color", Dict1("foreground", PyStr(Word.dynamic))),
    P("color", PyDict([foreground |-> PyStr(Word.red), background |-> PyStr(Word.blue)])),
    P("color", PyDict([foreground |-> PyTuple(<<255, 128, 0>>),
                       background |-> PyTuple(<<0, 0, 255>>)])),
    P("color", Dict1("foreground", PyStr(<<"n", "o">>))),
    P("style", PyDict([bold |-> PyBool(TRUE), underline |-> PyBool(TRUE)])),
    P("pad", PyDict([left |-> PyInt(2), right |-> PyInt(1), fillchar |-> PyStr(<<".">>)])),
    P("repeat", Dict1("count", PyInt(2))), P("repeat", Dict1("count", PyInt(0))),
    P("blink", PyBool(TRUE)) }

\* parameter values of the wrong shape
Malformed ==
  { P("align", PyStr(Word.left)),
    P("align", Dict1("width", PyStr(<<"w", "i", "d", "e">>))),
    P("align", Dict1("fillchar", PyStr(<<".", ".">>))),
    P("truncate", Dict1("width", PyStr(<<"1", "0">>))),
    P("repeat", Dict1("count", PyStr(<<"2">>))),
    P("visible", PyStr(<<">", "w", "i", "d", "e">>)),
    P("color", PyStr(Word.red)),
    P("if", PyDict([condition |-> Dict1("type", PyStr(Word.breakpoint))])),
    <<Item("align", PyDict(NoKeys)), Item("case", PyStr(Word.upper))>>,
    <<>> }

SomeActions ==
  { << Item("case", PyStr(Word.upper)), Item("align", AlignOf(Word.right, 6, <<"_">>)) >>,
    << Item("truncate", TruncateOf(3, <<ELL>>, Word.end)),
       Item("affix", Dict1("suffix", PyStr(DIM))),
       Item("repeat", Dict1("count", PyInt(2))) >>,
    << Item("if", BreakpointIf([max |-> PyInt(95)],
                     << Item("affix", Dict1("prefix", PyStr(<<":">>))),
                        Item("case", PyStr(Word.upper)) >>)),
       Item("pad", Dict1("left", PyInt(1))) >>,
    <<>> }

Ifs ==
  { P("if", BreakpointIf(b, a)) :
      b \in {[min |-> PyInt(95)], [max |-> PyInt(95)], [min |-> PyInt(75), max |-> PyInt(95)],
             NoKeys},
      a \in SomeActions }
  \cup { P("if", PyDict(NoKeys)),
         P("if", PyDict([condition |-> PyDict([type |-> PyStr(Word.breakpoint),
                                               value |-> PyDict(NoKeys)]),
                         action |-> PyDict([type |-> PyStr(<<"n", "o">>),
                                            value |-> PyItems(<<Item("case", PyStr(Word.upper))>>)])])) }

Pool == Aligns \cup Truncates \cup Others \cup Malformed \cup Ifs

\* what may precede a parameter of the pool: nothing, an escape sequence put
\* before or after the value, a false visible flag, a spliced-in parameter
Leads ==
  { P("affix", Dict1("prefix", PyStr(NORMAL))),
    P("affix", Dict1("suffix", PyStr(DIM))),
    P("visible", PyBool(FALSE)),
    P("if", BreakpointIf([min |-> PyInt(75)], <<Item("affix", Dict1("prefix", PyStr(DIM)))>>)) }

\* a suffix escape that a truncation without ending cuts through, and then
\* an alignment
CutThenAlign ==
  << P("affix", Dict1("suffix", PyStr(DIM))),
     P("truncate", TruncateOf(3, <<>>, Word.end)),
     P("align", AlignOf(Word.left, 8, <<"_">>)) >>

ParameterLists ==
  {<<>>} \cup { <<a>> : a \in Pool } \cup { <<l, a>> : l \in Leads, a \in Pool }
  \cup { <<a, P("case", PyStr(Word.upper))>> : a \in Ifs }
  \cup { CutThenAlign }

\* the one-segment formats of SpecSegment; "thread" is a key that neither
\* the context nor cmap has
SegmentFormats ==
  { <<Template("wrapfunc", ps)>> : ps \in ParameterLists }
  \cup { <<Template(k, <<a>>)>> : k \in {"timestamp", "linenum", "thread"}, a \in Pool }

-----------------------------------------------------------------------------
(* The specifications.                                                     *)

vars == <<engineVars, otherVars>>

\* a component that is not in use
Unused == [pc |-> "unused"]

\* the logger before its first log call (__init__, __reset_timestamp)
EngineInit ==
  /\ previous_timestamp = None
  /\ clock = 0
  /\ pc = "idle"
  /\ raised = FALSE
  /\ level = "info"
  /\ context = NoKeys
  /\ terminal_width = 0
  /\ prompt_length = 0
  /\ formatted_log_line = <<>>
  /\ message_space = 0
  /\ seg = 1
  /\ seg_width = 0
  /\ walk = NewWalk(<<>>, <<>>)
  /\ i = 0
  /\ applied = <<>>
  /\ added = 0
  /\ emitted = <<>>
  /\ before = <<>>
  /\ returned = Unused

\* Spec: a logger with one of Formats, at any terminal width, logging any
\* number of times while the clock runs and the terminal is resized
Init ==
  /\ EngineInit
  /\ groups = Unused
  /\ handler = Unused
  /\ painter = Unused
  /\ logger = Unused
  /\ caller = Unused
  /\ rs_filtering = Unused
  /\ rs_metadata = Unused
  /\ self_repr_id = Unused
  /\ threads = Unused
  /\ stripper = Unused
  /\ rs_format \in Formats
  /\ columns \in Widths
  /\ wrapper = Unused
  /\ renderer = Unused

Next ==
  \/ \E c \in Calls : LogStart(c.level, c.metadata)
  \/ SegmentBegin
  \/ WalkStep
  \/ Emit
  \/ Finish
  \/ Tick
  \/ \E w \in Widths : Resize(w)

Spec == Init /\ [][Next]_vars

\* SpecSegment: one log call of a logger whose format is one template
\* segment, with any parameter list of ParameterLists, followed up to the
\* return of __parse_log_line; the previous log line, if any, was printed
\* in the same second
SegmentInit ==
  /\ EngineInit
  /\ groups = Unused
  /\ handler = Unused
  /\ painter = Unused
  /\ logger = Unused
  /\ caller = Unused
  /\ rs_filtering = Unused
  /\ rs_metadata = Unused
  /\ self_repr_id = Unused
  /\ threads = Unused
  /\ stripper = Unused
  /\ rs_format \in SegmentFormats
  /\ columns \in Widths
  /\ wrapper = Unused
  /\ renderer = Unused

LoggedBefore ==
  /\ pc = "idle"
  /\ previous_timestamp = None
  /\ previous_timestamp' = strftime(clock, RuleFormat)
  /\ UNCHANGED <<rs_format, clock, columns, pc, raised, level, context,
                 terminal_width, prompt_length, formatted_log_line, message_space,
                 seg, seg_width, walk, i, applied, added, emitted,
                 before, returned>>
  /\ UNCHANGED otherVars

SegmentNext ==
  \/ \E c \in Calls : LogStart(c.level, c.metadata)
  \/ SegmentBegin
  \/ WalkStep
  \/ Emit
  \/ LoggedBefore

SpecSegment == SegmentInit /\ [][SegmentNext]_vars

-----------------------------------------------------------------------------
(* Prompt-length accounting (lines 849-861).                               *)

\* the segment loop has just appended the text of a segment
Emitted == pc \in {"segment", "finish"} /\ seg > 1

\* the segment whose text was appended last
LastSegment == rs_format[seg - 1]

\* C1, as stated: for every template segment, whatever its key, the amount
\* added to the prompt length is the number of visible (non-escape)
\* characters of the text emitted for the segment.
C1_AddedIsVisibleLength ==
  (Emitted /\ LastSegment.type = "template")
    => added = Len(remove_ansi(emitted))

\* C1, amended: for every template segment whose key is not timestamp the
\* amount added to the prompt length is the number of visible characters
\* of the emitted text; for the timestamp key it is the length of the
\* timestamp in the format of the terminal width, whatever was emitted.
C1_AddedIsVisibleLengthButTimestamp ==
  (Emitted /\ LastSegment.type = "template")
    => IF LastSegment.value = "timestamp"
       THEN added = Len(strftime(clock, WidthFormat(seg_width)))
       ELSE added = Len(remove_ansi(emitted))

\* a segment of another key whose value carries an escape sequence of its
\* own has been emitted and has added its visible characters
C1_EscapedValueCounted ==
  /\ Emitted
  /\ LastSegment.type = "template"
  /\ LastSegment.value = "wrapfunc"
  /\ walk.visible
  /\ Len(remove_ansi(walk.value)) < Len(walk.value)
  /\ added = Len(remove_ansi(walk.value))
  /\ added > 0

\* the parameters the walk has passed include one of the malformed ones
MalformedApplied == \E k \in 1..Len(applied) : applied[k] \in Malformed

\* C4: a malformed parameter value never aborts the render: the walk that
\* passes one is not left by an exception.
C4_MalformedNeverAborts == MalformedApplied => ~raised

\* a record given as a string where a record is expected has raised
C4_MalformedRaised ==
  /\ raised
  /\ pc = "idle"
  /\ applied = <<P("align", PyStr(Word.left))>>

\* C5: a template segment whose visible flag is false at the end of its
\* walk emits no visible character and adds 0 to the prompt length,
\* whatever its key and the terminal width.
C5_InvisibleAddsNothing ==
  (Emitted /\ LastSegment.type = "template" /\ ~walk.visible)
    => (added = 0 /\ remove_ansi(emitted) = <<>>)

\* an invisible timestamp segment has added the length of the timestamp
C5_InvisibleTimestampCounted ==
  /\ Emitted
  /\ LastSegment.type = "template"
  /\ LastSegment.value = "timestamp"
  /\ ~walk.visible
  /\ remove_ansi(emitted) = <<>>
  /\ added > 0

\* C6: a timestamp segment adds the length of the un-blanked timestamp, 19
\* columns at widths above 85 and 8 columns at or below, so the prompt
\* length of a line that is a timestamp and the level is the same whether
\* the timestamp is rendered in full or blank.
C6_TimestampAddsUnblankedLength ==
  /\ (Emitted /\ SegmentValue(LastSegment) = "timestamp")
       => added = IF seg_width > 85 THEN 19 ELSE 8
  /\ (pc = "finish" /\ rs_format = TimestampLevelFormat)
       => prompt_length =
            (IF terminal_width > 85 THEN 19 ELSE 8) + Len(LevelDisplay(level))

\* a timestamp equal to the previous line's has been rendered blank and has
\* added the 19 columns of the full timestamp
C6_BlankTimestampCounted ==
  /\ pc = "finish"
  /\ rs_format = TimestampLevelFormat
  /\ previous_timestamp = strftime(clock, RuleFormat)
  /\ context.timestamp.s = <<ESC, "[", "1", "9", "C">>
  /\ prompt_length = 19 + Len(LevelDisplay(level))

\* the scenario: the format [Static(" "), Template(linenum, [align{left, 3,
\* " "}])], a call from line 7, a terminal of 100 columns, and
\* __parse_log_line has returned
ScenarioDone ==
  /\ pc = "finish"
  /\ rs_format = ScenarioFormat
  /\ Str(context.linenum) = <<"7">>
  /\ terminal_width = 100

\* C7, as stated: the scenario returns the rendered line " 7  " and prompt
\* length 4.
C7_ScenarioLine ==
  ScenarioDone =>
    (formatted_log_line = <<" ", "7", " ", " ">> /\ prompt_length = 4)

\* C7, amended: the scenario returns the static text and the padded line
\* number each followed by the reset sequence ESC[0m, a line whose visible
\* characters are " 7  ", and prompt length 4.
C7_ScenarioLineWithResets ==
  ScenarioDone =>
    /\ formatted_log_line = <<" ">> \o RESET_ALL \o <<"7", " ", " ">> \o RESET_ALL
    /\ remove_ansi(formatted_log_line) = <<" ", "7", " ", " ">>
    /\ prompt_length = 4

\* the scenario has returned a line that ends with the reset sequence
C7_ScenarioReturned ==
  /\ ScenarioDone
  /\ Len(formatted_log_line) = 12
  /\ LastN(formatted_log_line, 4) = RESET_ALL
  /\ prompt_length = 4

-----------------------------------------------------------------------------
(* The if directive (lines 828-845).                                       *)

\* the breakpoint condition of an if directive's value is true at the
\* width and its action is a parameter set
IfOpens(v, width) ==
  /\ v.t = "dict"
  /\ {"condition", "action"} \subseteq DOMAIN v.d
  /\ v.d.condition.t = "dict"
  /\ v.d.action.t = "dict"
  /\ {"type", "value"} \subseteq DOMAIN v.d.condition.d
  /\ {"type", "value"} \subseteq DOMAIN v.d.action.d
  /\ v.d.condition.d.type = PyStr(Word.breakpoint)
  /\ v.d.action.d.type = PyStr(Word.parameters)
  /\ LET b == v.d.condition.d.value.d
     IN  /\ width >= (IF "min" \in DOMAIN b THEN b.min.n ELSE 0)
         /\ width < (IF "max" \in DOMAIN b THEN b.max.n ELSE 9999)

\* the directives of a parameter set, one parameter each, in its order
ActionParameters(v) ==
  LET items == v.d.action.d.value.items
  IN  [k \in 1..Len(items) |-> <<items[k]>>]

RECURSIVE ExpectedWalk(_, _)
\* the parameters a walk of the list passes at the width: each parameter,
\* an if whose condition is true followed at once by the directives of its
\* action, and only then by what followed the if
ExpectedWalk(parameters, width) ==
  IF parameters = <<>> THEN <<>>
  ELSE LET p == Head(parameters)
           opens == Len(p) = 1 /\ p[1].k = "if" /\ IfOpens(p[1].v, width)
       IN  <<p>> \o ExpectedWalk((IF opens THEN ActionParameters(p[1].v) ELSE <<>>)
                                   \o Tail(parameters), width)

IsPrefix(s, t) == Len(s) <= Len(t) /\ s = SubSeq(t, 1, Len(s))

\* C8: the directives of a true if are applied in the action's order right
\* after the if and before what followed it, in the same walk; those of a
\* false if are not applied.
C8_IfSplicesInOrder ==
  pc \in {"walk", "emit"} =>
    LET expected == ExpectedWalk(rs_format[seg].parameters, seg_width)
    IN  /\ IsPrefix(applied, expected)
        /\ pc = "emit" => applied = expected

\* a walk is over that passed an if, the two directives of its action and
\* then the directive that followed the if
C8_SplicedWalkDone ==
  /\ pc = "emit"
  /\ Len(rs_format[seg].parameters) = 2
  /\ rs_format[seg].parameters[1][1].k = "if"
  /\ Len(applied) = 4
  /\ applied[2] = <<Item("case", PyStr(Word.upper))>>
  /\ applied[3] = P("align", AlignOf(Word.right, 6, <<"_">>))
  /\ applied[4] = rs_format[seg].parameters[2]

-----------------------------------------------------------------------------
(* align (lines 666-678) and truncate (lines 723-767).                     *)

\* the parameter the walk passed last, and its value
LastApplied == applied[Len(applied)]
LastValue == LastApplied[1].v

\* the walk has just passed, without an exception, a directive of the name
\* whose value is a record with the keys
Passed(name, keys) ==
  /\ pc \in {"walk", "emit"}
  /\ applied # <<>>
  /\ Len(LastApplied) = 1
  /\ LastApplied[1].k = name
  /\ LastValue.t = "dict"
  /\ keys \subseteq DOMAIN LastValue.d

\* an align directive with a width, a one-character fillchar and one of the
\* three alignments
AlignPassed ==
  /\ Passed("align", {"alignment", "width", "fillchar"})
  /\ LastValue.d.width.t = "int"
  /\ IsFillChar(LastValue.d.fillchar)
  /\ LastValue.d.alignment.s \in {Word.left, Word.right, Word.center}

\* the last n characters of s
Suffix(s, n) == SubSeq(s, Len(s) - n + 1, Len(s))

\* C9: after an align directive with width w and a one-character fillchar,
\* a value of at most w visible characters has exactly w visible characters
\* and is the original value with fill characters after it (left), before
\* it (right) or on both sides, evenly up to one (center); a value of more
\* than w visible characters is unchanged.
C9_AlignPadsToWidth ==
  AlignPassed =>
    LET w == LastValue.d.width.n
        fill == LastValue.d.fillchar.s
        a == LastValue.d.alignment.s
        missing == w - Len(remove_ansi(before))
    IN  IF missing < 0 THEN walk.value = before
        ELSE /\ Len(remove_ansi(walk.value)) = w
             /\ \E l \in 0..missing :
                  /\ walk.value = Times(fill, l) \o before \o Times(fill, missing - l)
                  /\ a = Word.left => l = 0
                  /\ a = Word.right => l = missing
                  /\ a = Word.center => (2 * l - missing) \in {-1, 0, 1}

\* a value that ends in a cut-off escape sequence has been aligned, and the
\* fill character has completed the sequence
C9_FillCompletesEscape ==
  /\ AlignPassed
  /\ applied = CutThenAlign
  /\ before = Word.main \o <<ESC, "[", "2">>
  /\ walk.value = before \o <<"_">>
  /\ remove_ansi(walk.value) = Word.main

\* a truncate directive with a width, an ending that fits in the width and
\* one of the three positions
TruncatePassed ==
  /\ Passed("truncate", {"width", "ending", "position"})
  /\ LastValue.d.width.t = "int"
  /\ LastValue.d.ending.t = "str"
  /\ LastValue.d.position.s \in {Word.end, Word.start, Word.center}
  /\ Len(LastValue.d.ending.s) <= LastValue.d.width.n

\* C10: after a truncate directive with width w and ending e, a value of
\* more than w visible characters has exactly w visible characters: e and
\* w - len(e) visible characters of the original, from its start (end),
\* from its end (start) or from both (center); a value of at most w
\* visible characters is unchanged.
C10_TruncateCutsToWidth ==
  TruncatePassed =>
    LET w == LastValue.d.width.n
        e == LastValue.d.ending.s
        pos == LastValue.d.position.s
        keep == w - Len(e)
        original == remove_ansi(before)
        result == remove_ansi(walk.value)
    IN  IF Len(original) <= w THEN walk.value = before
        ELSE /\ Len(result) = w
             /\ \E l \in 0..keep :
                  /\ result = Take(original, l) \o e \o Suffix(original, keep - l)
                  /\ pos = Word.end => l = keep
                  /\ pos = Word.start => l = 0

\* a value of four characters has been truncated at the start to width 1
\* with an ending of one character, and has five characters
C10_StartKeepsWholeValue ==
  /\ TruncatePassed
  /\ applied = <<P("truncate", TruncateOf(1, <<ELL>>, Word.start))>>
  /\ before = Word.main
  /\ walk.value = <<ELL>> \o Word.main

-----------------------------------------------------------------------------
(* __wrap_text (lines 594-624).                                            *)

RECURSIVE split(_, _)
\* text.split(sep) for a separator of one character
split(text, sep) ==
  IF \A p \in 1..Len(text) : text[p] # sep THEN <<text>>
  ELSE LET at == CHOOSE p \in 1..Len(text) :
                   text[p] = sep /\ \A q \in 1..(p - 1) : text[q] # sep
       IN  <<SubSeq(text, 1, at - 1)>> \o split(SubSeq(text, at + 1, Len(text)), sep)

RECURSIVE SkipUntil(_, _, _)
\* the first position >= q of s that holds a character of class cls
SkipUntil(s, q, cls) ==
  IF q <= Len(s) /\ s[q] \notin cls THEN SkipUntil(s, q + 1, cls) ELSE q

RECURSIVE findall_words(_, _)
\* re.findall(r"\S+\s*", line) from position p on
findall_words(line, p) ==
  LET start == SkipWhile(line, p, WhiteSpace)
      stop  == SkipWhile(line, SkipUntil(line, start, WhiteSpace), WhiteSpace)
  IN  IF start > Len(line) THEN <<>>
      ELSE <<SubSeq(line, start, stop - 1)>> \o findall_words(line, stop)

RECURSIVE rstrip(_)
\* str.rstrip()
rstrip(s) ==
  IF s # <<>> /\ s[Len(s)] \in WhiteSpace THEN rstrip(SubSeq(s, 1, Len(s) - 1))
  ELSE s

RECURSIVE wrap_words_late(_, _, _, _, _)
\* a variant of the word loop that starts a new line only once the current
\* one is over the width
wrap_words_late(words, current_line, current_line_visible_length, width, result) ==
  IF words = <<>>
  THEN IF current_line # <<>> THEN Append(result, rstrip(current_line)) ELSE result
  ELSE LET word == Head(words)
           word_visible_length == visible_length(word)
           over == current_line_visible_length > width
       IN  wrap_words_late(
             Tail(words),
             (IF over THEN <<>> ELSE current_line) \o word,
             (IF over THEN 0 ELSE current_line_visible_length) + word_visible_length,
             width,
             IF over /\ current_line # <<>>
             THEN Append(result, rstrip(current_line)) ELSE result)

RECURSIVE wrap_words(_, _, _, _, _)
\* for word in words, and the flush after the loop: the result with the
\* lines of this line of the text appended
wrap_words(words, current_line, current_line_visible_length, width, result) ==
  IF words = <<>>
  THEN IF current_line # <<>> THEN Append(result, rstrip(current_line)) ELSE result
  ELSE LET word == Head(words)
           word_visible_length == visible_length(word)
           over == current_line_visible_length + word_visible_length > width
       IN  wrap_words(
             Tail(words),
             (IF over THEN <<>> ELSE current_line) \o word,
             (IF over THEN 0 ELSE current_line_visible_length) + word_visible_length,
             width,
             IF over /\ current_line # <<>>
             THEN Append(result, rstrip(current_line)) ELSE result)

RECURSIVE wrap_lines(_, _, _)
\* for line in lines
wrap_lines(lines, width, result) ==
  IF lines = <<>> THEN result
  ELSE wrap_lines(Tail(lines), width,
                  wrap_words(findall_words(Head(lines), 1), <<>>, 0, width, result))

\* FluxLogger.__wrap_text
wrap_text(text, width) == wrap_lines(split(text, NL), width, <<>>)

\* the texts and widths the model wraps
MaxTextLen == 5
MaxWrapWidth == 3
WrapAlphabet == {"a", "M", " ", NL, ESC, "["}
WrapTexts == UNION { [1..n -> WrapAlphabet] : n \in 0..MaxTextLen }

\* SpecWrap: one call of __wrap_text on any text of WrapTexts at any width
\* from 1 to MaxWrapWidth
WrapInit ==
  /\ EngineInit
  /\ groups = Unused
  /\ handler = Unused
  /\ painter = Unused
  /\ logger = Unused
  /\ caller = Unused
  /\ rs_filtering = Unused
  /\ rs_metadata = Unused
  /\ self_repr_id = Unused
  /\ threads = Unused
  /\ stripper = Unused
  /\ rs_format = <<>>
  /\ columns = 100
  /\ renderer = Unused
  /\ \E text \in WrapTexts, width \in 1..MaxWrapWidth :
       wrapper = [pc |-> "called", text |-> text, width |-> width, result |-> <<>>,
                  last_line_height |-> 0, last_line_length |-> 0]

WrapCall ==
  /\ wrapper.pc = "called"
  /\ wrapper' = [wrapper EXCEPT !.pc = "returned",
                                !.result = wrap_text(wrapper.text, wrapper.width)]
  /\ UNCHANGED <<engineVars, renderer, stripper, threads, self_repr_id, rs_metadata, rs_filtering, caller, logger, painter, handler, groups>>

\* lines 531-532 of __log, which follow the call of __wrap_text: lines[-1]
\* of an empty list raises IndexError
ReadLast ==
  /\ wrapper.pc = "returned"
  /\ wrapper' = IF wrapper.result = <<>>
                THEN [wrapper EXCEPT !.pc = "raised", !.last_line_height = 0]
                ELSE [wrapper EXCEPT !.pc = "printed",
                                     !.last_line_height = Len(wrapper.result),
                                     !.last_line_length =
                                        Len(wrapper.result[Len(wrapper.result)])]
  /\ UNCHANGED <<engineVars, renderer, stripper, threads, self_repr_id, rs_metadata, rs_filtering, caller, logger, painter, handler, groups>>

WrapNext == WrapCall \/ ReadLast

SpecWrap == WrapInit /\ [][WrapNext]_vars

RECURSIVE Flatten(_)
\* the elements of the sequences of a sequence, in order
Flatten(ss) == IF ss = <<>> THEN <<>> ELSE Head(ss) \o Flatten(Tail(ss))

\* the tokens of a text: its maximal runs of characters other than spaces
\* and line breaks, in order
Tokens(text) ==
  LET spaced == [p \in 1..Len(text) |-> IF text[p] = NL THEN " " ELSE text[p]]
      NonEmpty(run) == run # <<>>
  IN  SelectSeq(split(spaced, " "), NonEmpty)

\* C2: no line that wrap returns has more than width visible characters,
\* unless the line is one single token that is itself longer than width;
\* the tokens of the lines, in order, are the tokens of the text, so no
\* word is split across lines.
C2_WrapFitsWidth ==
  wrapper.pc = "returned" =>
    LET lines == wrapper.result
    IN  /\ \A k \in 1..Len(lines) :
             \/ visible_length(lines[k]) <= wrapper.width
             \/ /\ Tokens(lines[k]) = <<lines[k]>>
                /\ visible_length(lines[k]) > wrapper.width
        /\ Flatten([k \in 1..Len(lines) |-> Tokens(lines[k])]) = Tokens(wrapper.text)

\* a token longer than the width and an escape sequence have been wrapped
\* into a line each
C2_WrappedWithLongToken ==
  /\ wrapper.pc = "returned"
  /\ wrapper.width = 1
  /\ wrapper.text = <<"a", "a", " ", ESC, "M">>
  /\ wrapper.result = << <<"a", "a">>, <<ESC, "M">> >>

\* C14: wrap returns no empty line, and for a text that is one single empty
\* line it returns exactly one line, so reading the last line of the
\* result never fails.
C14_EmptyTextGivesOneLine ==
  /\ wrapper.pc = "returned" =>
        /\ \A k \in 1..Len(wrapper.result) : wrapper.result[k] # <<>>
        /\ wrapper.text = <<>> => Len(wrapper.result) = 1
  /\ wrapper.pc # "raised"

\* the wrap of the empty text has returned no line and the read of the last
\* line has failed
C14_EmptyTextRaised ==
  /\ wrapper.pc = "raised"
  /\ wrapper.text = <<>>
  /\ wrapper.result = <<>>

\* a CSI sequence lies at positions p..e of s: ESC, "[", parameter bytes,
\* intermediate bytes, one final byte
CsiAt(s, p, e) ==
  /\ 1 <= p /\ p + 2 <= e /\ e <= Len(s)
  /\ s[p] = ESC /\ s[p + 1] = "["
  /\ s[e] \in FinalBytes
  /\ \E m \in (p + 1)..(e - 1) :
       /\ \A q \in (p + 2)..m : s[q] \in ParamBytes
       /\ \A q \in (m + 1)..(e - 1) : s[q] \in InterBytes

\* the number of CSI sequences of s
CsiCount(s) == Cardinality({pe \in (1..Len(s)) \X (1..Len(s)) : CsiAt(s, pe[1], pe[2])})

\* the number of characters of s that belong to a CSI sequence
CsiBytes(s) ==
  Cardinality({q \in 1..Len(s) :
                 \E p \in 1..q, e \in q..Len(s) : CsiAt(s, p, e)})

RECURSIVE SumOf(_)
SumOf(ns) == IF ns = <<>> THEN 0 ELSE Head(ns) + SumOf(Tail(ns))

\* C13: every escape sequence of the text is whole in one token and in one
\* line that wrap returns (the lines hold as many sequences as the text),
\* and no character of an escape sequence is counted in the measured
\* visible length of a token.
C13_EscapesKeptWhole ==
  wrapper.pc = "returned" =>
    LET lines == wrapper.result
        words == Flatten([k \in 1..Len(split(wrapper.text, NL)) |->
                            findall_words(split(wrapper.text, NL)[k], 1)])
    IN  /\ SumOf([k \in 1..Len(lines) |-> CsiCount(lines[k])]) = CsiCount(wrapper.text)
        /\ SumOf([k \in 1..Len(words) |-> CsiCount(words[k])]) = CsiCount(wrapper.text)
        /\ SumOf([k \in 1..Len(words) |-> visible_length(words[k])])
             <= SumOf([k \in 1..Len(words) |-> Len(words[k])]) - CsiBytes(wrapper.text)

\* a CSI sequence with a space as its intermediate byte has been cut into
\* two lines, although the width has room for its one visible character
C13_CsiCutAtSpace ==
  /\ wrapper.pc = "returned"
  /\ wrapper.width = 3
  /\ wrapper.text = <<ESC, "[", " ", "a">>
  /\ CsiAt(wrapper.text, 1, 4)
  /\ wrapper.result = << <<ESC, "[">>, <<"a">> >>

-----------------------------------------------------------------------------
(* __sanitize_unsafe_objects and __format_variable (lines 555-592).  A     *)
(* list or a tuple is [t, l] with l a sequence of values, a dict is        *)
(* [t, items] with items a sequence of key-value items in insertion order. *)
(* The strs of the model hold no quote and no backslash.                   *)

PyNone == [t |-> "NoneType"]
\* an object of a type that is none of str, int, float, bool, list, dict,
\* tuple, with the text that repr() gives for it
PyObject(text) == [t |-> "object", repr |-> text]

RECURSIVE JoinWith(_, _)
\* sep.join(l)
JoinWith(l, sep) ==
  IF l = <<>> THEN <<>>
  ELSE IF Len(l) = 1 THEN l[1]
  ELSE l[1] \o sep \o JoinWith(Tail(l), sep)

RECURSIVE repr(_)
\* repr(v) of a value
repr(v) ==
  CASE v.t = "str" -> <<"'">> \o v.s \o <<"'">>
    [] v.t = "int" -> IntToStr(v.n)
    [] v.t = "NoneType" -> <<"N", "o", "n", "e">>
    [] v.t = "object" -> v.repr
    [] v.t = "list" ->
         <<"[">> \o JoinWith([k \in 1..Len(v.l) |-> repr(v.l[k])], <<",", " ">>) \o <<"]">>
    [] v.t = "tuple" ->
         IF Len(v.l) = 1 THEN <<"(">> \o repr(v.l[1]) \o <<",", ")">>
         ELSE <<"(">> \o JoinWith([k \in 1..Len(v.l) |-> repr(v.l[k])], <<",", " ">>)
                \o <<")">>
    [] v.t = "dict" ->
         <<"{">>
           \o JoinWith([k \in 1..Len(v.items) |->
                          repr(v.items[k].k) \o <<":", " ">> \o repr(v.items[k].v)],
                       <<",", " ">>)
           \o <<"}">>

\* str(v) of a value
str(v) == IF v.t = "str" THEN v.s ELSE repr(v)

RECURSIVE sanitize_unsafe_objects(_, _)
\* FluxLogger.__sanitize_unsafe_objects, with self.__repr_id
sanitize_unsafe_objects(variable, repr_id) ==
  IF variable.t \in {"str", "int", "float", "bool"} THEN variable
  ELSE IF variable.t = "list"
  THEN PyList([k \in 1..Len(variable.l) |->
                 sanitize_unsafe_objects(variable.l[k], repr_id)])
  ELSE IF variable.t = "dict"
  THEN PyItems([k \in 1..Len(variable.items) |->
                  Item(variable.items[k].k,
                       sanitize_unsafe_objects(variable.items[k].v, repr_id))])
  ELSE IF variable.t = "tuple"
  THEN PyTuple([k \in 1..Len(variable.l) |->
                  sanitize_unsafe_objects(variable.l[k], repr_id)])
  ELSE PyStr(repr_id \o repr(variable))

IdentStart == LowerLetters \cup UpperLetters \cup {"_"}
IdentChars == IdentStart \cup Digits

RECURSIVE ParseExpr(_, _)
RECURSIVE ParseItems(_, _, _, _)
\* the parser behind black.format_str, for the expressions that str() of a
\* sanitized value can be: a str or int literal, a name, a list, a tuple or
\* a dict display.  The position after the expression that starts at p, 0
\* if none starts there.
ParseExpr(s, p) ==
  IF p > Len(s) THEN 0
  ELSE IF s[p] \in {"'", DQ}
  THEN LET q == SkipUntil(s, p + 1, {s[p]})
       IN  IF q <= Len(s) THEN q + 1 ELSE 0
  ELSE IF s[p] \in Digits
  THEN LET q == SkipWhile(s, p, Digits)
       IN  IF q <= Len(s) /\ s[q] \in IdentChars THEN 0 ELSE q
  ELSE IF s[p] \in IdentStart THEN SkipWhile(s, p, IdentChars)
  ELSE IF s[p] = "[" THEN ParseItems(s, p + 1, "]", FALSE)
  ELSE IF s[p] = "(" THEN ParseItems(s, p + 1, ")", FALSE)
  ELSE IF s[p] = "{" THEN ParseItems(s, p + 1, "}", TRUE)
  ELSE 0

\* the items of a display up to its closing bracket, key: value pairs for a
\* dict
ParseItems(s, p, close, pairs) ==
  IF p > Len(s) THEN 0
  ELSE IF s[p] = close THEN p + 1
  ELSE LET k == ParseExpr(s, p)
           v == IF ~pairs THEN k
                ELSE IF k = 0 \/ k + 1 > Len(s) THEN 0
                ELSE IF s[k] # ":" \/ s[k + 1] # " " THEN 0
                ELSE ParseExpr(s, k + 2)
       IN  IF v = 0 \/ v > Len(s) THEN 0
           ELSE IF s[v] = close THEN v + 1
           ELSE IF s[v] # "," THEN 0
           ELSE ParseItems(s, SkipWhile(s, v + 1, {" "}), close, pairs)

\* black.format_str(src, mode): [ok, out]; ok = FALSE for the raised
\* InvalidInput.  The output has the quotes of the strs turned into double
\* quotes and ends with a line break; the sources of the model fit on a
\* line.
format_str(src) ==
  IF ParseExpr(src, 1) # Len(src) + 1 THEN [ok |-> FALSE, out |-> <<>>]
  ELSE [ok |-> TRUE,
        out |-> [p \in 1..Len(src) |-> IF src[p] = "'" THEN DQ ELSE src[p]] \o <<NL>>]

RECURSIVE untag(_, _, _, _)
\* re.sub(quote + repr_id + "(.*?)" + quote, r"\1", s) from position p on
untag(s, p, quote, repr_id) ==
  IF p > Len(s) THEN <<>>
  ELSE LET open == <<quote>> \o repr_id
           from == p + Len(open)
           q == SkipUntil(s, from, {quote, NL})
       IN  IF /\ from - 1 <= Len(s)
              /\ SubSeq(s, p, from - 1) = open
              /\ q <= Len(s)
              /\ s[q] = quote
           THEN SubSeq(s, from, q - 1) \o untag(s, q + 1, quote, repr_id)
           ELSE <<s[p]>> \o untag(s, p + 1, quote, repr_id)

\* FluxLogger.__format_variable up to the call of highlight, and the
\* rstrip() of its result: [raised, text].  The colours that highlight puts
\* around the tokens are left out.
format_variable(variable, repr_id) ==
  LET formatted == format_str(str(sanitize_unsafe_objects(variable, repr_id)))
  IN  IF ~formatted.ok THEN [raised |-> TRUE, text |-> <<>>]
      ELSE [raised |-> FALSE,
            text |-> rstrip(untag(untag(formatted.out, 1, "'", repr_id),
                                  1, DQ, repr_id))]

\* the values the model formats: atoms, containers of atoms, and containers
\* that hold one container of atoms
MaxItems == 2
logger_repr == <<"<", "F", "l", "u", "x", "L", "o", "g", "g", "e", "r", " ",
                 "a", "t", " ", "0", "x", "1", ">">>
Atoms == {PyStr(<<"a">>), PyInt(3), PyNone, PyObject(logger_repr)}
SeqsOf(S, n) == UNION { [1..m -> S] : m \in 0..n }
Flat ==
  { PyList(l) : l \in SeqsOf(Atoms, MaxItems) }
  \cup { PyTuple(l) : l \in SeqsOf(Atoms, MaxItems) }
  \cup { PyItems(<<Item(k, v)>>) : k \in Atoms, v \in Atoms }
  \cup { PyItems(<<>>) }
Nested ==
  { PyList(<<c>>) : c \in Flat }
  \cup { PyTuple(<<PyInt(3), c>>) : c \in Flat }
  \cup { PyItems(<<Item(k, c)>>) : k \in Atoms, c \in Flat }
SanValues == Atoms \cup Flat \cup Nested

\* self.__repr_id: four random letters and digits; one that starts with a
\* letter and one that starts with a digit
ReprIds == { <<"Z", "q", "7", "x">>, <<"7", "a", "b", "c">> }

\* SpecSan: one value of a log call with pretty_print set is turned into
\* its text (lines 411-420)
SanInit ==
  /\ EngineInit
  /\ groups = Unused
  /\ handler = Unused
  /\ painter = Unused
  /\ logger = Unused
  /\ caller = Unused
  /\ rs_filtering = Unused
  /\ rs_metadata = Unused
  /\ self_repr_id = Unused
  /\ threads = Unused
  /\ stripper = Unused
  /\ rs_format = <<>>
  /\ columns = 100
  /\ wrapper = Unused
  /\ \E value \in SanValues, repr_id \in ReprIds :
       renderer = [pc |-> "called", value |-> value, repr_id |-> repr_id,
                   sanitized |-> Unused, text |-> <<>>]

\* lines 413-417: str(value) for a str or an int, __format_variable(value)
\* for any other value
FormatValue ==
  /\ renderer.pc = "called"
  /\ IF renderer.value.t \in {"str", "int", "float"}
     THEN renderer' = [renderer EXCEPT !.pc = "returned", !.text = str(renderer.value)]
     ELSE LET r == format_variable(renderer.value, renderer.repr_id)
          IN  renderer' = [renderer EXCEPT
                             !.pc = IF r.raised THEN "raised" ELSE "returned",
                             !.sanitized = sanitize_unsafe_objects(renderer.value,
                                                                   renderer.repr_id),
                             !.text = r.text]
  /\ UNCHANGED <<engineVars, wrapper, stripper, threads, self_repr_id, rs_metadata, rs_filtering, caller, logger, painter, handler, groups>>

SanNext == FormatValue

SpecSan == SanInit /\ [][SanNext]_vars

\* C3: for every value, with unsupported objects as elements, as mapping
\* values or as mapping keys, sanitize, serialize and reformat, un-tag
\* completes with a string and never raises.
C3_PipelineNeverRaises == renderer.pc # "raised"

\* a mapping whose key is an unsupported object has made the pipeline raise
C3_ObjectKeyRaised ==
  /\ renderer.pc = "raised"
  /\ renderer.value = PyItems(<<Item(PyObject(logger_repr), PyInt(3))>>)

\* the primitives: str, number, bool, None
IsPrimitive(v) == v.t \in {"str", "int", "float", "bool", "NoneType"}

RECURSIVE SameShape(_, _, _)
\* out has the container shape and the element order of v, and each of its
\* leaves is the primitive that v has there or the tagged representation of
\* what v has there
SameShape(v, out, repr_id) ==
  IF v.t \in {"list", "tuple"}
  THEN /\ out.t = v.t
       /\ Len(out.l) = Len(v.l)
       /\ \A k \in 1..Len(v.l) : SameShape(v.l[k], out.l[k], repr_id)
  ELSE IF v.t = "dict"
  THEN /\ out.t = "dict"
       /\ Len(out.items) = Len(v.items)
       /\ \A k \in 1..Len(v.items) :
            /\ SameShape(v.items[k].k, out.items[k].k, repr_id)
            /\ SameShape(v.items[k].v, out.items[k].v, repr_id)
  ELSE \/ IsPrimitive(v) /\ out = v
       \/ out = PyStr(repr_id \o repr(v))

\* C15: the tree that sanitize returns has the container shape and the
\* element order of its input, and each of its leaves (list and tuple
\* elements, mapping values and mapping keys) is a primitive passed
\* through unchanged or the string of the tag token followed by the
\* representation of the object.
C15_SanitizedLeaves ==
  (renderer.pc \in {"returned", "raised"} /\ renderer.sanitized # Unused) =>
    SameShape(renderer.value, renderer.sanitized, renderer.repr_id)

\* a mapping with an unsupported object as its key has been sanitized, and
\* the key of the result is the object itself
C15_ObjectKeyKept ==
  /\ renderer.pc \in {"returned", "raised"}
  /\ renderer.value = PyItems(<<Item(PyObject(logger_repr), PyObject(logger_repr))>>)
  /\ renderer.sanitized.items[1].k = PyObject(logger_repr)
  /\ renderer.sanitized.items[1].v = PyStr(renderer.repr_id \o logger_repr)

-----------------------------------------------------------------------------
(* filter (lines 691-716).                                                 *)

\* C11: a filter in include mode replaces the value exactly when none of
\* the items occurs in it and keeps it when at least one occurs; in exclude
\* mode it replaces the value exactly when at least one item occurs; items
\* are compared without regard to case unless case_sensitive is set.
C11_FilterReplacesByOccurrence ==
  Passed("filter", {"items", "replace"}) =>
    LET d == LastValue.d
        mode == IF "mode" \in DOMAIN d THEN lower(d.mode.s) ELSE Word.exclude
        sensitive == IF "case_sensitive" \in DOMAIN d THEN d.case_sensitive.b ELSE FALSE
        norm(s) == IF sensitive THEN s ELSE lower(s)
        occurs == \E k \in 1..Len(d.items.l) :
                    Contains(norm(before), norm(d.items.l[k]))
    IN  /\ mode = Word.include =>
             walk.value = IF occurs THEN before ELSE d.replace.s
        /\ mode = Word.exclude =>
             walk.value = IF occurs THEN d.replace.s ELSE before

\* a value in which one of the two items of an include filter occurs has
\* been replaced
C11_IncludeReplacedDespiteItem ==
  /\ Passed("filter", {"items", "replace", "mode"})
  /\ LastValue.d.mode.s = Word.include
  /\ LastValue.d.items.l = <<Word.main, <<"x">>>>
  /\ before = Word.main
  /\ walk.value = LastValue.d.replace.s
  /\ walk.value # before

-----------------------------------------------------------------------------
(* The visible directive at the widths around its threshold (lines         *)
(* 768-777 and 849-850).                                                   *)

\* the thresholds N of visible ">N": the small ones and the 85 of the
\* default format
MaxThreshold == 11
Thresholds == (1..MaxThreshold) \cup {85}

\* visible ">N"
VisibleAbove(n) == P("visible", PyStr(<<">">> \o IntToStr(n)))

\* the one-segment formats of SpecVisible: a key of the context, and a
\* visible ">N" between a colour and a directive that changes the value
VisibleFormats ==
  { <<Template(k, lead \o <<VisibleAbove(n)>> \o rest)>> :
      k \in {"timestamp", "filename", "wrapfunc", "linenum", "level"},
      n \in Thresholds,
      lead \in {<<>>, <<P("color", Dict1("foreground", PyStr(Word.dynamic)))>>},
      rest \in {<<>>, <<P("case", PyStr(Word.upper))>>,
                <<P("affix", Dict1("prefix", PyStr(NORMAL)))>>} }

\* SpecVisible: one log call of a logger whose format is one template
\* segment with a visible ">N", in a terminal of N - 1, N or N + 1 columns
VisibleInit ==
  /\ EngineInit
  /\ groups = Unused
  /\ handler = Unused
  /\ painter = Unused
  /\ logger = Unused
  /\ caller = Unused
  /\ rs_filtering = Unused
  /\ rs_metadata = Unused
  /\ self_repr_id = Unused
  /\ threads = Unused
  /\ stripper = Unused
  /\ rs_format \in VisibleFormats
  /\ columns \in { n + d : n \in Thresholds, d \in {-1, 0, 1} }
  /\ wrapper = Unused
  /\ renderer = Unused

VisibleNext ==
  \/ \E c \in Calls : LogStart(c.level, c.metadata)
  \/ SegmentBegin
  \/ WalkStep
  \/ Emit

SpecVisible == VisibleInit /\ [][VisibleNext]_vars

\* the threshold of the visible ">N" of the format
ThresholdOf(format) ==
  LET ps == format[1].parameters
      at == CHOOSE k \in 1..Len(ps) : ps[k][1].k = "visible"
  IN  DigitsValue(Tail(ps[at][1].v.s))

\* C12: a template segment with a non-empty value and a visible ">N"
\* renders empty in a terminal of N - 1 columns and non-empty in a terminal
\* of N + 1 columns.
C12_VisibleAroundThreshold ==
  (pc = "finish" /\ rs_format \in VisibleFormats) =>
    LET n == ThresholdOf(rs_format)
    IN  /\ seg_width = n - 1 => remove_ansi(formatted_log_line) = <<>>
        /\ seg_width = n + 1 => remove_ansi(formatted_log_line) # <<>>

\* the segment of visible ">85" has rendered empty at width 84
C12_EmptyBelow85 ==
  /\ pc = "finish"
  /\ rs_format \in VisibleFormats
  /\ ThresholdOf(rs_format) = 85
  /\ seg_width = 84
  /\ ~walk.visible
  /\ remove_ansi(formatted_log_line) = <<>>

-----------------------------------------------------------------------------
(* Stripping a string twice: __remove_ansi (lines 900-902) and the         *)
(* ansi_escape.sub of __wrap_text (lines 595-600).                         *)

\* the strings the model strips
MaxStripLen == 6
StripAlphabet == {ESC, "[", "M", "0", "a"}
StripTexts == UNION { [1..n -> StripAlphabet] : n \in 0..MaxStripLen }

\* SpecStrip: any string of StripTexts is stripped with one of the two
\* patterns, and the result is stripped again with the same pattern
StripInit ==
  /\ EngineInit
  /\ groups = Unused
  /\ handler = Unused
  /\ painter = Unused
  /\ logger = Unused
  /\ caller = Unused
  /\ rs_filtering = Unused
  /\ rs_metadata = Unused
  /\ self_repr_id = Unused
  /\ threads = Unused
  /\ rs_format = <<>>
  /\ columns = 100
  /\ wrapper = Unused
  /\ renderer = Unused
  /\ \E s \in StripTexts, engine \in BOOLEAN :
       stripper = [pc |-> "called", s |-> s, engine |-> engine,
                   once |-> <<>>, twice |-> <<>>]

\* the pattern's sub("", text)
Strip(text, engine) == IF engine THEN remove_ansi(text) ELSE ansi_escape_sub(text)

StripOnce ==
  /\ stripper.pc = "called"
  /\ stripper' = [stripper EXCEPT !.pc = "once",
                                  !.once = Strip(stripper.s, stripper.engine)]
  /\ UNCHANGED <<engineVars, wrapper, renderer, threads, self_repr_id, rs_metadata, rs_filtering, caller, logger, painter, handler, groups>>

StripAgain ==
  /\ stripper.pc = "once"
  /\ stripper' = [stripper EXCEPT !.pc = "twice",
                                  !.twice = Strip(stripper.once, stripper.engine)]
  /\ UNCHANGED <<engineVars, wrapper, renderer, threads, self_repr_id, rs_metadata, rs_filtering, caller, logger, painter, handler, groups>>

StripNext == StripOnce \/ StripAgain

SpecStrip == StripInit /\ [][StripNext]_vars

\* C16: with either pattern, stripping a stripped string changes nothing,
\* so the visible length of the stripped string (the length of what the
\* second stripping leaves) is the visible length of the string (the
\* length of what the first stripping leaves).
C16_StripIdempotent ==
  stripper.pc = "twice" =>
    /\ stripper.twice = stripper.once
    /\ Len(stripper.twice) = Len(stripper.once)

\* the wrapper's pattern has left an escape sequence behind: ESC before a
\* two-byte sequence, and the final byte of a sequence after it
C16_SecondStripRemovesMore ==
  /\ stripper.pc = "twice"
  /\ ~stripper.engine
  /\ stripper.s = <<ESC, ESC, "M", "M">>
  /\ stripper.once = <<ESC, "M">>
  /\ stripper.twice = <<>>

-----------------------------------------------------------------------------
(* One logger called again and again (lines 639-672 and 840-845).          *)

\* a format without its segments of the timestamp key
WithoutTimestamp(format) ==
  LET Other(segment) == SegmentValue(segment) # "timestamp"
  IN  SelectSeq(format, Other)

\* the formats of SpecRepeat: the default format and the scenario's, and
\* one-segment formats in which an escape sequence or a spliced-in
\* parameter precedes an if or an alignment
RepeatFormats ==
  { WithoutTimestamp(DefaultFormat), ScenarioFormat }
  \cup { <<Template("wrapfunc", <<l, a>>)>> : l \in Leads, a \in Ifs \cup Aligns }

\* SpecRepeat: a logger with one of RepeatFormats, logging any number of
\* times while the clock runs and the terminal is resized between calls
RepeatInit ==
  /\ EngineInit
  /\ groups = Unused
  /\ handler = Unused
  /\ painter = Unused
  /\ logger = Unused
  /\ caller = Unused
  /\ rs_filtering = Unused
  /\ rs_metadata = Unused
  /\ self_repr_id = Unused
  /\ threads = Unused
  /\ rs_format \in RepeatFormats
  /\ columns \in Widths
  /\ wrapper = Unused
  /\ renderer = Unused
  /\ stripper = Unused

RepeatNext ==
  \/ \E c \in Calls : LogStart(c.level, c.metadata)
  \/ SegmentBegin
  \/ WalkStep
  \/ Emit
  \/ Finish
  \/ Tick
  \/ \E w \in Widths : Resize(w)

SpecRepeat == RepeatInit /\ [][RepeatNext]_vars

\* the call that is about to return has the level, the context (but for
\* the timestamp) and the terminal width of the last call that returned
SameAsReturned ==
  /\ pc = "finish"
  /\ returned # Unused
  /\ returned.level = level
  /\ returned.terminal_width = terminal_width
  /\ \A k \in DOMAIN context \ {"timestamp"} : returned.context[k] = context[k]

\* C17: a call with the segment list, context, level and terminal width of
\* an earlier call of the logger returns the line and the prompt length
\* that call returned, and no step of a call changes the configured
\* segment list.
C17_SameInputsSameLine ==
  /\ [](SameAsReturned =>
          /\ returned.log_line = formatted_log_line
          /\ returned.prompt_length = prompt_length)
  /\ [][rs_format' = rs_format]_vars

\* a second call with the arguments of the first is about to return, after
\* an if has spliced a parameter into the working list of its segment,
\* whose value holds an escape sequence
C17_SecondCallSpliced ==
  /\ SameAsReturned
  /\ Len(rs_format) = 1
  /\ Len(walk.parameters) > Len(rs_format[1].parameters)
  /\ Len(walk.value) > Len(remove_ansi(walk.value))
  /\ returned.log_line = formatted_log_line

-----------------------------------------------------------------------------
(* Two threads log through one logger.  The logger takes no lock, so the   *)
(* calls interleave between any two accesses of the instance's attributes; *)
(* self.__prompt_length (lines 643, 853-861, 405-406) is one attribute of  *)
(* the instance, shared by the calls.                                      *)

Threads == {1, 2}

\* the formats of the shared logger
ThreadFormats == { ScenarioFormat, TimestampLevelFormat }

\* a thread that has not called yet
NotCalled ==
  [pc |-> "idle", level |-> "info", context |-> NoKeys, terminal_width |-> 0,
   seg |-> 1, seg_width |-> 0, walk |-> NewWalk(<<>>, <<>>), loaded |-> 0,
   log_line |-> <<>>, message_space |-> 0, message_indent |-> 0, own |-> 0]

\* SpecThreads: each of two threads makes one log call on the same logger
ThreadsInit ==
  /\ EngineInit
  /\ groups = Unused
  /\ handler = Unused
  /\ painter = Unused
  /\ logger = Unused
  /\ caller = Unused
  /\ rs_filtering = Unused
  /\ rs_metadata = Unused
  /\ self_repr_id = Unused
  /\ rs_format \in ThreadFormats
  /\ columns \in Widths
  /\ wrapper = Unused
  /\ renderer = Unused
  /\ stripper = Unused
  /\ threads = [t \in Threads |-> NotCalled]

\* the variables of the logger that the calls of SpecThreads leave alone
unsharedVars ==
  <<rs_format, previous_timestamp, clock, columns, pc, raised, level, context,
    terminal_width, formatted_log_line, message_space, seg, seg_width, walk, i,
    applied, added, emitted, before, returned>>

RECURSIVE WalkAll(_, _, _, _, _)
\* for parameter in parameters (lines 659-847), from the parameter at
\* 0-based position k on, up to the end of the list or an exception
WalkAll(st, k, width, lv, key) ==
  IF st.raised \/ k >= Len(st.parameters) THEN st
  ELSE WalkAll(ApplyParameter(st, k, width, lv, key), k + 1, width, lv, key)

\* lines 390-404 and 639-644, by thread t: the context is built and
\* self.__prompt_length is set to 0
ThreadStart(t, lv, metadata) ==
  /\ threads[t].pc = "idle"
  /\ threads' = [threads EXCEPT ![t] =
       [@ EXCEPT !.pc = "segment",
                 !.level = lv,
                 !.terminal_width = columns,
                 !.context =
                   [timestamp |-> PyStr(define_timestamp(clock, previous_timestamp, FALSE,
                                                          WidthFormat(columns))),
                    filename |-> PyStr(metadata.file_name),
                    wrapfunc |-> PyStr(metadata.wrapping_func),
                    linenum  |-> metadata.line_number,
                    level    |-> PyStr(LevelDisplay(lv))]]]
  /\ prompt_length' = 0
  /\ UNCHANGED <<unsharedVars, wrapper, renderer, stripper, self_repr_id, rs_metadata, rs_filtering, caller, logger, painter, handler, groups>>

\* lines 645-852, by thread t: the segment's value is computed, and the
\* augmented assignment of line 853 or 861 reads self.__prompt_length,
\* which it does before it evaluates its right-hand side
SegmentLoad(t) ==
  /\ threads[t].pc = "segment"
  /\ LET th == threads[t]
         segment == rs_format[th.seg]
         st == IF segment.type # "template" THEN NewWalk(segment.text, <<>>)
               ELSE WalkAll(NewWalk(Str(Get(th.context, segment.value, PyStr(<<>>))),
                                    segment.parameters),
                            0, columns, th.level, segment.value)
     IN  threads' = [threads EXCEPT ![t] =
           [@ EXCEPT !.pc = IF st.raised THEN "raised" ELSE "store",
                     !.seg_width = columns,
                     !.walk = st,
                     !.loaded = prompt_length]]
  /\ UNCHANGED <<unsharedVars, prompt_length, wrapper, renderer, stripper, self_repr_id, rs_metadata, rs_filtering, caller, logger, painter, handler, groups>>

\* lines 853-894, by thread t: the right-hand side is evaluated and the
\* sum is stored in self.__prompt_length; the segment's text is appended
\* to the line
SegmentStore(t) ==
  /\ threads[t].pc = "store"
  /\ LET th == threads[t]
         segment == rs_format[th.seg]
         value == IF ~th.walk.visible THEN <<>> ELSE th.walk.value
         amount == PromptAmount(segment, value, clock, th.seg_width)
     IN  /\ prompt_length' = th.loaded + amount
         /\ threads' = [threads EXCEPT ![t] =
              [@ EXCEPT !.pc = IF th.seg < Len(rs_format) THEN "segment" ELSE "finish",
                        !.seg = th.seg + 1,
                        !.own = th.own + amount,
                        !.log_line = th.log_line
                                       \o colorize(value, th.walk.color, th.walk.style)]]
  /\ UNCHANGED <<unsharedVars, wrapper, renderer, stripper, self_repr_id, rs_metadata, rs_filtering, caller, logger, painter, handler, groups>>

\* lines 404-406, by thread t: __parse_log_line has returned, and the
\* message width and indent are taken from self.__prompt_length
ThreadFinish(t) ==
  /\ threads[t].pc = "finish"
  /\ threads' = [threads EXCEPT ![t] =
       [@ EXCEPT !.pc = "done",
                 !.message_space = threads[t].terminal_width - prompt_length,
                 !.message_indent = prompt_length]]
  /\ UNCHANGED <<unsharedVars, prompt_length, wrapper, renderer, stripper, self_repr_id, rs_metadata, rs_filtering, caller, logger, painter, handler, groups>>

ThreadsNext ==
  \/ \E t \in Threads, c \in Calls : ThreadStart(t, c.level, c.metadata)
  \/ \E t \in Threads : SegmentLoad(t)
  \/ \E t \in Threads : SegmentStore(t)
  \/ \E t \in Threads : ThreadFinish(t)

SpecThreads == ThreadsInit /\ [][ThreadsNext]_vars

\* C18: each of two interleaved calls takes its message width and indent
\* from the prompt length of its own line (own: the sum of what its own
\* segments added), not from a count that the other call has reset or
\* incremented.
C18_OwnPromptLength ==
  \A t \in Threads :
    threads[t].pc = "done" =>
      /\ threads[t].message_indent = threads[t].own
      /\ threads[t].message_space = threads[t].terminal_width - threads[t].own

\* a call has returned with an indent that is not the prompt length of its
\* own line, after the other call has started
C18_IndentOfOtherCall ==
  \E t \in Threads :
    /\ threads[t].pc = "done"
    /\ threads[t].message_indent # threads[t].own
    /\ \E u \in Threads \ {t} : threads[u].pc # "idle"

-----------------------------------------------------------------------------
(* Two threads log a value with pretty_print through one logger (lines     *)
(* 408-420 and 555-592).  self.__repr_id is one attribute of the instance: *)
(* every call assigns it, and __format_variable reads it three times, in   *)
(* the order in which Python evaluates the arguments of the nested calls:  *)
(* for the pattern of the double-quoted tag (line 577), for the pattern of *)
(* the single-quoted tag (line 580), and in the sanitizer (line 568).      *)

\* the values the threads log: containers with an unsupported object or
\* None in them
TagValues ==
  { PyList(<<PyObject(logger_repr)>>),
    PyTuple(<<PyInt(3), PyNone>>),
    PyItems(<<Item(PyStr(<<"a">>), PyObject(logger_repr))>>) }

\* a thread that has not called yet
NotLogged ==
  [pc |-> "idle", value |-> PyNone, double_id |-> <<>>, single_id |-> <<>>,
   tag_id |-> <<>>, text |-> <<>>]

\* SpecTags: each of two threads makes one log call with one value of
\* TagValues on the same logger
TagsInit ==
  /\ EngineInit
  /\ groups = Unused
  /\ handler = Unused
  /\ painter = Unused
  /\ logger = Unused
  /\ caller = Unused
  /\ rs_filtering = Unused
  /\ rs_metadata = Unused
  /\ rs_format = <<>>
  /\ columns = 100
  /\ wrapper = Unused
  /\ renderer = Unused
  /\ stripper = Unused
  /\ self_repr_id = <<>>
  /\ threads = [t \in Threads |-> NotLogged]

\* lines 408-410, by thread t: self.__repr_id is drawn
DrawReprId(t, value, id) ==
  /\ threads[t].pc = "idle"
  /\ self_repr_id' = id
  /\ threads' = [threads EXCEPT ![t] = [@ EXCEPT !.pc = "double", !.value = value]]
  /\ UNCHANGED <<engineVars, wrapper, renderer, stripper, rs_metadata, rs_filtering, caller, logger, painter, handler, groups>>

\* line 577, by thread t: the pattern of the double-quoted tag is built
ReadForDouble(t) ==
  /\ threads[t].pc = "double"
  /\ threads' = [threads EXCEPT ![t] = [@ EXCEPT !.pc = "single", !.double_id = self_repr_id]]
  /\ UNCHANGED <<engineVars, wrapper, renderer, stripper, self_repr_id, rs_metadata, rs_filtering, caller, logger, painter, handler, groups>>

\* line 580, by thread t: the pattern of the single-quoted tag is built
ReadForSingle(t) ==
  /\ threads[t].pc = "single"
  /\ threads' = [threads EXCEPT ![t] = [@ EXCEPT !.pc = "sanitize", !.single_id = self_repr_id]]
  /\ UNCHANGED <<engineVars, wrapper, renderer, stripper, self_repr_id, rs_metadata, rs_filtering, caller, logger, painter, handler, groups>>

\* lines 576-592 with the three reads of self.__repr_id told apart:
\* [raised, text]
format_variable_with(variable, tag_id, single_id, double_id) ==
  LET formatted == format_str(str(sanitize_unsafe_objects(variable, tag_id)))
  IN  IF ~formatted.ok THEN [raised |-> TRUE, text |-> <<>>]
      ELSE [raised |-> FALSE,
            text |-> rstrip(untag(untag(formatted.out, 1, "'", single_id),
                                  1, DQ, double_id))]

\* lines 582-585 and 576-592, by thread t: the value is sanitized with
\* the self.__repr_id of this moment, formatted, and un-tagged with the
\* two patterns built before
SanitizeAndUntag(t) ==
  /\ threads[t].pc = "sanitize"
  /\ LET th == threads[t]
         r == format_variable_with(th.value, self_repr_id, th.single_id, th.double_id)
     IN  threads' = [threads EXCEPT ![t] =
           [@ EXCEPT !.pc = IF r.raised THEN "raised" ELSE "done",
                     !.tag_id = self_repr_id,
                     !.text = r.text]]
  /\ UNCHANGED <<engineVars, wrapper, renderer, stripper, self_repr_id, rs_metadata, rs_filtering, caller, logger, painter, handler, groups>>

TagsNext ==
  \/ \E t \in Threads, value \in TagValues, id \in ReprIds : DrawReprId(t, value, id)
  \/ \E t \in Threads : ReadForDouble(t)
  \/ \E t \in Threads : ReadForSingle(t)
  \/ \E t \in Threads : SanitizeAndUntag(t)

SpecTags == TagsInit /\ [][TagsNext]_vars

\* C19: in each of two interleaved calls the value is un-tagged with the
\* tag token it was sanitized with, and no tag token remains in the
\* message.
C19_UntaggedWithOwnTag ==
  \A t \in Threads :
    threads[t].pc = "done" =>
      /\ threads[t].single_id = threads[t].tag_id
      /\ threads[t].double_id = threads[t].tag_id
      /\ \A id \in ReprIds : ~Contains(threads[t].text, id)

\* a message has been built in which the tag token of the other call's
\* draw is left, quoted, before the representation of the object
C19_TagLeftInMessage ==
  \E t \in Threads :
    /\ threads[t].pc = "done"
    /\ threads[t].value = PyList(<<PyObject(logger_repr)>>)
    /\ threads[t].double_id # threads[t].tag_id
    /\ threads[t].text = <<"[", DQ>> \o threads[t].tag_id \o logger_repr \o <<DQ, "]">>

-----------------------------------------------------------------------------
(* Parameters of an unknown kind (lines 280-289, 659-666 and 826-847).     *)

\* the kinds of parameter that the walk knows
KnownKinds ==
  {"align", "case", "filter", "affix", "truncate", "visible", "color", "style",
   "pad", "repeat", "if"}

\* the format of the logger has a parameter of an unknown kind
HasUnknownKind ==
  \E s \in 1..Len(rs_format) :
    \E k \in 1..Len(rs_format[s].parameters) :
      \E n \in 1..Len(rs_format[s].parameters[k]) :
        rs_format[s].parameters[k][n].k \notin KnownKinds

\* C20: a format with a parameter of an unknown kind is rejected before it
\* is rendered: no log call on it gets as far as the walk of a segment,
\* and the walk never passes a parameter of an unknown kind.
C20_UnknownKindRejected ==
  /\ HasUnknownKind => pc \notin {"walk", "emit", "finish"}
  /\ \A k \in 1..Len(applied) :
       \A n \in 1..Len(applied[k]) : applied[k][n].k \in KnownKinds

\* the walk has passed a parameter of an unknown kind without an exception,
\* and the value is what it was
C20_UnknownKindIgnored ==
  /\ pc = "emit"
  /\ ~raised
  /\ applied = <<P("blink", PyBool(TRUE))>>
  /\ rs_format = <<Template("wrapfunc", applied)>>
  /\ walk.value = before
  /\ walk.value = Word.main

-----------------------------------------------------------------------------
(* The metadata strip of __log (lines 424-508) and __define_m_widget       *)
(* (lines 904-905).                                                        *)

\* dict[key]: [ok, v]; ok = FALSE for the raised KeyError
Subscript(d, key) ==
  IF key \in DOMAIN d THEN [ok |-> TRUE, v |-> d[key]]
  ELSE [ok |-> FALSE, v |-> PyStr(<<>>)]

RECURSIVE replace(_, _, _)
\* s.replace(old, new) of str
replace(s, old, new) ==
  IF old = <<>> \/ Len(s) < Len(old) THEN s
  ELSE IF SubSeq(s, 1, Len(old)) = old
       THEN new \o replace(SubSeq(s, Len(old) + 1, Len(s)), old, new)
  ELSE <<s[1]>> \o replace(Tail(s), old, new)

\* FluxLogger.__define_m_widget
define_m_widget(content, space) == IF space >= Len(content) THEN content ELSE <<>>

\* "[" + name + ": " + text + "]"
Widget(name, text) == <<"[">> \o name \o <<":", " ">> \o text \o <<"]">>

\* threading.current_thread().name
ThreadName == <<"M", "a", "i", "n", "T", "h", "r", "e", "a", "d">>

\* the widgets of lines 434-501 in the order of the code, each with the
\* rule that includes it
Widgets(lv, ctx, now, value_count) ==
  << [rule |-> "include_timestamp",
      content |-> Widget(<<"t", "m", "s">>, strftime(now, RuleFormat))],
     [rule |-> "include_level_name", content |-> Widget(<<"l", "v", "l">>, lower(LevelDisplay(lv)))],
     [rule |-> "include_thread_name", content |-> Widget(<<"t", "h", "r">>, ThreadName)],
     [rule |-> "include_file_name", content |-> Widget(<<"f", "l">>, Str(ctx.filename))],
     [rule |-> "include_wrapping_function",
      content |-> Widget(<<"w", "f", "c">>, Str(ctx.wrapfunc))],
     [rule |-> "include_function", content |-> Widget(<<"f", "n", "c">>, Str(ctx.wrapfunc))],
     [rule |-> "include_line_number", content |-> Widget(<<"l", "n">>, Str(ctx.linenum))],
     [rule |-> "include_value_count",
      content |-> Widget(<<"v", "l", "c">>, IntToStr(value_count))] >>

RECURSIVE StripOf(_, _, _, _, _)
\* self.__log_metadata after the widgets from the k-th on: each widget
\* that its rule includes is put before the strip if the space left
\* takes it
StripOf(widgets, k, rules, message_length, log_metadata) ==
  IF k > Len(widgets) THEN log_metadata
  ELSE StripOf(widgets, k + 1, rules, message_length,
               IF rules[widgets[k].rule]
               THEN define_m_widget(widgets[k].content,
                                    message_length - Len(log_metadata)) \o log_metadata
               ELSE log_metadata)

\* lines 424-508: [raised, text]; raised for the KeyError of context["tms"]
LogMetadata(rules, ctx, log_line, width, lv, now, value_count) ==
  IF ~rules.show_metadata THEN [raised |-> FALSE, text |-> <<>>]
  ELSE LET tms == Subscript(ctx, "tms")
       IN  IF ~tms.ok THEN [raised |-> TRUE, text |-> <<>>]
           ELSE LET message_length ==
                      width - Len(remove_ansi(replace(log_line, Str(tms.v),
                                                      strftime(now, RuleFormat))))
                    strip == StripOf(Widgets(lv, ctx, now, value_count), 1, rules,
                                     message_length, <<>>)
                IN  [raised |-> FALSE,
                     text |-> RESET_ALL \o DIM \o rjust(strip, message_length, <<" ">>)]

\* self.defaults["metadata"], and the rules of the metadata strip that the
\* model gives a logger
MetadataDefaults ==
  [show_metadata |-> FALSE, include_timestamp |-> FALSE, include_level_name |-> FALSE,
   include_thread_name |-> TRUE, include_file_name |-> FALSE,
   include_wrapping_function |-> FALSE, include_function |-> TRUE,
   include_line_number |-> FALSE, include_value_count |-> TRUE]
MetadataRules ==
  { MetadataDefaults,
    [MetadataDefaults EXCEPT !.show_metadata = TRUE],
    [MetadataDefaults EXCEPT !.show_metadata = TRUE, !.include_thread_name = FALSE,
                             !.include_function = FALSE, !.include_value_count = FALSE],
    [MetadataDefaults EXCEPT !.show_metadata = TRUE, !.include_timestamp = TRUE,
                             !.include_line_number = TRUE] }

\* SpecMetadata: a logger with one of Formats and one of MetadataRules,
\* logging any number of times
MetadataInit ==
  /\ EngineInit
  /\ groups = Unused
  /\ handler = Unused
  /\ painter = Unused
  /\ logger = Unused
  /\ caller = Unused
  /\ rs_filtering = Unused
  /\ rs_format \in Formats \ {<<>>}
  /\ columns \in Widths
  /\ rs_metadata \in MetadataRules
  /\ wrapper = Unused
  /\ renderer = Unused
  /\ stripper = Unused
  /\ threads = Unused
  /\ self_repr_id = Unused

\* lines 404-528: __parse_log_line has returned; the metadata strip is
\* appended to the line, unless building it raises
FinishWithMetadata(value_count) ==
  /\ pc = "finish"
  /\ pc' = "idle"
  /\ message_space' = terminal_width - prompt_length
  /\ LET r == LogMetadata(rs_metadata, context, formatted_log_line, columns, level,
                          clock, value_count)
     IN  IF r.raised
         THEN /\ raised' = TRUE
              /\ UNCHANGED <<formatted_log_line, previous_timestamp, returned>>
         ELSE /\ raised' = FALSE
              /\ formatted_log_line' = formatted_log_line \o r.text
              /\ previous_timestamp' = strftime(clock, RuleFormat)
              /\ returned' = [level |-> level, context |-> context,
                              terminal_width |-> terminal_width,
                              log_line |-> formatted_log_line \o r.text,
                              prompt_length |-> prompt_length]
  /\ UNCHANGED <<rs_format, clock, columns, level, context, terminal_width,
                 prompt_length, seg, seg_width, walk, i, applied, added, emitted,
                 before>>
  /\ UNCHANGED otherVars

MetadataNext ==
  \/ \E c \in Calls : LogStart(c.level, c.metadata)
  \/ SegmentBegin
  \/ WalkStep
  \/ Emit
  \/ \E n \in 1..2 : FinishWithMetadata(n)
  \/ Tick

SpecMetadata == MetadataInit /\ [][MetadataNext]_vars

\* C21: with show_metadata set, a log call completes, and the unstyled
\* length of the line it has built, prompt and metadata strip, is at
\* most the terminal width.
C21_MetadataStripFits ==
  rs_metadata.show_metadata =>
    /\ ~raised
    /\ (pc = "idle" /\ returned # Unused) =>
         Len(remove_ansi(returned.log_line)) <= returned.terminal_width

\* with show_metadata set, a call has rendered every segment of its line
\* and has then been left by an exception
C21_MetadataRaised ==
  /\ rs_metadata.show_metadata
  /\ pc = "idle"
  /\ raised
  /\ seg = Len(rs_format) + 1
  /\ formatted_log_line # <<>>

-----------------------------------------------------------------------------
(* The head of __log: the level and message filters (lines 355-388) and    *)
(* the assignment of the local `message` (lines 411-420).                  *)

\* self.__levels[level]["level"]
LevelNumber ==
  [debug |-> 1, info |-> 0, success |-> 2, warning |-> 3, error |-> 4, critical |-> -1]

\* a local that no assignment has bound yet, and one bound to the str s
Unbound == [bound |-> FALSE, s |-> <<>>]
Bound(s) == [bound |-> TRUE, s |-> s]

\* any(sub in message.lower() for sub in [substring.lower() for substring
\* in substrings]): [raised, any].  The list is built first; the generator
\* reads `message` once per element, which raises NameError while the
\* local is not bound
AnyIn(substrings, message) ==
  IF substrings = <<>> THEN [raised |-> FALSE, any |-> FALSE]
  ELSE IF ~message.bound THEN [raised |-> TRUE, any |-> FALSE]
  ELSE [raised |-> FALSE,
        any |-> \E k \in 1..Len(substrings) :
                  Contains(lower(message.s), lower(substrings[k]))]

\* lines 355-388: "raised", "return" or "pass"
Filters(rules, lv, message) ==
  LET excluded == AnyIn(rules.exclude_messages, message)
      included == AnyIn(rules.include_only_messages, message)
  IN  IF LevelNumber[lv] # -1 /\ LevelNumber[lv] < rules.min_level THEN "return"
      ELSE IF excluded.raised THEN "raised"
      ELSE IF excluded.any THEN "return"
      ELSE IF rules.include_only_messages = <<>> THEN "pass"
      ELSE IF included.raised THEN "raised"
      ELSE IF ~included.any THEN "return"
      ELSE "pass"

\* the substrings of the rules and the values of the calls
FilterWords == { Word.main, <<"x">> }
FilterLists == {<<>>} \cup { <<a>> : a \in FilterWords } \cup { <<a, b>> : a, b \in FilterWords }
FilterValues == { Word.main, upper(Word.main), <<"o", "k">>, <<>> }

\* SpecFilter: one call of __log with one str value, on a logger with any
\* filtering rules over FilterLists
FilterInit ==
  /\ EngineInit
  /\ groups = Unused
  /\ handler = Unused
  /\ painter = Unused
  /\ logger = Unused
  /\ rs_format = <<>>
  /\ columns = 100
  /\ wrapper = Unused
  /\ renderer = Unused
  /\ stripper = Unused
  /\ threads = Unused
  /\ self_repr_id = Unused
  /\ rs_metadata = Unused
  /\ \E min_level \in {0, 3}, exclude \in FilterLists, include \in FilterLists :
       rs_filtering = [min_level |-> min_level, exclude_messages |-> exclude,
                       include_only_messages |-> include]
  /\ \E lv \in {"info", "error"}, value \in FilterValues :
       caller = [pc |-> "called", level |-> lv, value |-> value, message |-> Unbound,
                 printed |-> FALSE]

\* lines 355-388: the filters of the call
ApplyFilters ==
  /\ caller.pc = "called"
  /\ caller' = [caller EXCEPT !.pc = Filters(rs_filtering, caller.level, caller.message)]
  /\ UNCHANGED <<engineVars, wrapper, renderer, stripper, threads, self_repr_id,
                 rs_metadata, rs_filtering, logger, painter, handler, groups>>

\* lines 390-538: the message is joined from the values (str(value) for a
\* str) and the line is printed
BuildMessage ==
  /\ caller.pc = "pass"
  /\ caller' = [caller EXCEPT !.pc = "printed", !.message = Bound(caller.value),
                              !.printed = TRUE]
  /\ UNCHANGED <<engineVars, wrapper, renderer, stripper, threads, self_repr_id,
                 rs_metadata, rs_filtering, logger, painter, handler, groups>>

FilterNext == ApplyFilters \/ BuildMessage

SpecFilter == FilterInit /\ [][FilterNext]_vars

\* the message of the call holds one of the substrings, whatever the case
Holds(substrings, value) ==
  \E k \in 1..Len(substrings) : Contains(lower(value), lower(substrings[k]))

\* C22: with a non-empty exclude_messages, a call whose message holds a
\* listed substring prints nothing and raises nothing, and a call at or
\* above the minimum level whose message holds none of them (and one of
\* include_only_messages, if there are any) gets printed.
C22_ExcludeFilters ==
  rs_filtering.exclude_messages # <<>> =>
    /\ caller.pc # "raised"
    /\ Holds(rs_filtering.exclude_messages, caller.value) => ~caller.printed
    /\ ( /\ caller.pc \notin {"called", "pass"}
         /\ ~Holds(rs_filtering.exclude_messages, caller.value)
         /\ LevelNumber[caller.level] >= rs_filtering.min_level
         /\ \/ rs_filtering.include_only_messages = <<>>
            \/ Holds(rs_filtering.include_only_messages, caller.value) )
       => caller.printed

\* with "x" excluded, a call with the message "ok" has been left by an
\* exception in the filter, before its message was built
C22_FilterRaised ==
  /\ caller.pc = "raised"
  /\ rs_filtering.exclude_messages = << <<"x">> >>
  /\ rs_filtering.include_only_messages = <<>>
  /\ caller.value = <<"o", "k">>
  /\ ~caller.message.bound

-----------------------------------------------------------------------------
(* The construction of a logger with rule overrides (fluxlog.py lines      *)
(* 280-289, core.py lines 74-91).  A dict of dicts is a function from      *)
(* category to the identity of a settings dict held in `objects`, so that  *)
(* two dicts sharing a settings dict are told from two equal dicts.        *)

\* the built-in default rules, two categories of them
BuiltinDefaults ==
  [filtering |-> [min_level |-> 0, exclude_messages |-> <<>>],
   log_line  |-> [format |-> "default"]]

\* dict.update: the settings of `settings` over those of `d`
update(d, settings) ==
  [k \in DOMAIN d \cup DOMAIN settings |->
     IF k \in DOMAIN settings THEN settings[k] ELSE d[k]]

\* the dict of dicts named by `outer`, by value
Deref(objects, outer) == [c \in DOMAIN outer |-> objects[outer[c]]]

\* the overrides a caller passes: items (category, settings)
OverrideItems ==
  { [category |-> "filtering", settings |-> [min_level |-> 3]],
    [category |-> "filtering", settings |-> [exclude_messages |-> << <<"x">> >>]],
    [category |-> "filtering", settings |-> [min_level |-> 0]],
    [category |-> "log_line",  settings |-> [format |-> "short"]],
    [category |-> "log_line",  settings |-> [format |-> "default"]],
    [category |-> "extra",     settings |-> [a |-> 1]] }
Overrides ==
  {<<>>} \cup { <<a>> : a \in OverrideItems }
         \cup { o \in { <<a, b>> : a, b \in OverrideItems } :
                  o[1].category # o[2].category }

\* SpecDefaults: one construction, with any overrides of Overrides.
\* Objects 1 and 2 are the settings dicts of self.defaults, object 2 + k
\* is the settings dict of the k-th override.
DefaultsInit ==
  /\ EngineInit
  /\ groups = Unused
  /\ handler = Unused
  /\ painter = Unused
  /\ rs_format = <<>>
  /\ columns = 100
  /\ wrapper = Unused
  /\ renderer = Unused
  /\ stripper = Unused
  /\ threads = Unused
  /\ self_repr_id = Unused
  /\ rs_metadata = Unused
  /\ rs_filtering = Unused
  /\ caller = Unused
  /\ \E rules \in Overrides :
       logger = [pc |-> "defaults",
                 overrides |-> rules,
                 objects |-> [n \in 1..(2 + Len(rules)) |->
                                IF n = 1 THEN BuiltinDefaults.filtering
                                ELSE IF n = 2 THEN BuiltinDefaults.log_line
                                ELSE rules[n - 2].settings],
                 defaults |-> [filtering |-> 1, log_line |-> 2],
                 rules |-> <<>>,
                 next |-> 1,
                 handler_defaults |-> <<>>]

\* line 280: self.rules = self.defaults.copy(), a new outer dict over the
\* same settings dicts
CopyDefaults ==
  /\ logger.pc = "defaults"
  /\ logger' = [logger EXCEPT !.pc = "update", !.rules = logger.defaults]
  /\ UNCHANGED <<engineVars, wrapper, renderer, stripper, threads, self_repr_id,
                 rs_metadata, rs_filtering, caller, painter, handler, groups>>

\* lines 282-286: one item of rules.items()
UpdateCategory ==
  /\ logger.pc = "update"
  /\ logger.next <= Len(logger.overrides)
  /\ LET item == logger.overrides[logger.next]
         category == item.category
     IN  IF category \in DOMAIN logger.rules
         THEN logger' = [logger EXCEPT
                !.objects[logger.rules[category]] = update(@, item.settings),
                !.next = @ + 1]
         ELSE logger' = [logger EXCEPT
                !.rules = [c \in DOMAIN logger.rules \cup {category} |->
                             IF c = category THEN 2 + logger.next ELSE logger.rules[c]],
                !.next = @ + 1]
  /\ UNCHANGED <<engineVars, wrapper, renderer, stripper, threads, self_repr_id,
                 rs_metadata, rs_filtering, caller, painter, handler, groups>>

\* core.py lines 82-83 and handlers.py line 56: the handlers take a deep
\* copy of self.defaults once the overrides are applied
MakeStreams ==
  /\ logger.pc = "update"
  /\ logger.next > Len(logger.overrides)
  /\ logger' = [logger EXCEPT !.pc = "built",
                              !.handler_defaults = Deref(logger.objects, logger.defaults)]
  /\ UNCHANGED <<engineVars, wrapper, renderer, stripper, threads, self_repr_id,
                 rs_metadata, rs_filtering, caller, painter, handler, groups>>

DefaultsNext == CopyDefaults \/ UpdateCategory \/ MakeStreams

SpecDefaults == DefaultsInit /\ [][DefaultsNext]_vars

\* C23: at every point of a construction self.defaults equals the built-in
\* default rules, and so do the defaults the handlers were given.
C23_DefaultsKept ==
  /\ Deref(logger.objects, logger.defaults) = BuiltinDefaults
  /\ logger.pc = "built" => logger.handler_defaults = BuiltinDefaults

\* a logger built with {"filtering": {"min_level": 3}} whose defaults, and
\* whose handlers' defaults, have min_level 3
C23_OverrideInDefaults ==
  /\ logger.pc = "built"
  /\ logger.overrides = << [category |-> "filtering", settings |-> [min_level |-> 3]] >>
  /\ logger.objects[logger.defaults.filtering].min_level = 3
  /\ logger.handler_defaults.filtering.min_level = 3
  /\ Deref(logger.objects, logger.rules).filtering.min_level = 3

-----------------------------------------------------------------------------
(* The last-seen-timestamp cache over successive log calls.                *)

\* the rendered timestamp is the cursor movement that leaves it blank
IsBlank(timestamp) == StartsWith(timestamp, ESC)

\* the cached string is the time of the rendered timestamp `shown`, which
\* is in the rule format or in the short format, the tail of the former
CachedFor(cached, shown) ==
  /\ cached # None
  /\ LastN(cached, Len(shown)) = shown

\* C24: the cache is written from the clock reading the call's timestamp
\* was rendered from (a blank one leaves it as it is, any other one is the
\* time it shows), and a call after a line with a rendered timestamp blanks
\* its own only if the cache is that line's time.
C24_CacheOfOneReading ==
  [][ /\ (pc = "finish" /\ pc' = "idle") =>
           IF IsBlank(context.timestamp.s)
           THEN previous_timestamp' = previous_timestamp
           ELSE CachedFor(previous_timestamp', context.timestamp.s)
      /\ ( /\ pc = "idle" /\ pc' # "idle"
           /\ returned # Unused
           /\ ~IsBlank(returned.context.timestamp.s)
           /\ IsBlank(context'.timestamp.s) ) =>
           CachedFor(previous_timestamp, returned.context.timestamp.s) ]_vars

\* a call at second 1 renders a blank timestamp after a line that showed
\* second 0 and ended at second 1: second 1 was never shown
C24_BlankNeverShown ==
  /\ pc # "idle"
  /\ clock = 1
  /\ IsBlank(context.timestamp.s)
  /\ returned # Unused
  /\ returned.context.timestamp.s = strftime(0, WidthFormat(returned.terminal_width))
  /\ previous_timestamp = strftime(1, RuleFormat)

-----------------------------------------------------------------------------
(* A terminal that is resized while a log call runs.                       *)

\* the terminal is resized between two steps of a log call
ResizeDuringCall(width) ==
  /\ pc # "idle"
  /\ width # columns
  /\ columns' = width
  /\ UNCHANGED <<rs_format, previous_timestamp, clock, pc, raised, level, context,
                 terminal_width, prompt_length, formatted_log_line, message_space,
                 seg, seg_width, walk, i, applied, added, emitted,
                 before, returned>>
  /\ UNCHANGED otherVars

\* SpecResize: the first log call of a logger of Spec, on a terminal that
\* is resized at any point of the call
ResizeInit == Init

ResizeNext ==
  \/ \E c \in Calls : returned = Unused /\ LogStart(c.level, c.metadata)
  \/ SegmentBegin
  \/ WalkStep
  \/ Emit
  \/ Finish
  \/ \E w \in Widths : ResizeDuringCall(w)

SpecResize == ResizeInit /\ [][ResizeNext]_vars

\* C25: while a segment of a call is worked on, the width its visible and
\* if checks and its timestamp length use is the width the call read for
\* the timestamp format and the message space.
C25_OneWidthPerCall ==
  pc \in {"walk", "emit"} => seg_width = terminal_width

\* a call that read 100 columns for its timestamp format and message space
\* has hidden a segment by a check against 70 columns
C25_SegmentAtOtherWidth ==
  /\ pc = "emit"
  /\ terminal_width = 100
  /\ seg_width = 70
  /\ ~walk.visible
  /\ \E k \in 1..Len(applied) :
       /\ applied[k][1].k = "visible"
       /\ Visible(walk, applied[k][1].v, 100).visible

-----------------------------------------------------------------------------
(* The parameter walk with if directives inside the actions of if          *)
(* directives.                                                             *)

\* the items of actions: none, one directive, two directives
WalkActions ==
  { <<>>,
    << Item("case", PyStr(Word.upper)) >>,
    << Item("affix", Dict1("prefix", PyStr(<<":">>))), Item("case", PyStr(Word.upper)) >> }

\* breakpoints that hold at every width of Widths, at 100 only, at none
WalkBounds == { NoKeys, [min |-> PyInt(95)], [max |-> PyInt(50)] }

\* if directives whose action holds no if, one if, an if in an if
InnerIfs == { Item("if", BreakpointIf(b, a)) : b \in WalkBounds, a \in WalkActions }
MiddleIfs ==
  { Item("if", BreakpointIf(b, <<inner, Item("pad", Dict1("left", PyInt(1)))>>)) :
      b \in {NoKeys, [min |-> PyInt(95)]}, inner \in InnerIfs }
  \cup { Item("if", BreakpointIf(NoKeys, <<Item("case", PyStr(Word.upper)), inner>>)) :
           inner \in InnerIfs }
OuterIfs ==
  { Item("if", BreakpointIf(NoKeys, <<middle>>)) :
      middle \in { Item("if", BreakpointIf(NoKeys, <<inner, Item("pad", Dict1("left", PyInt(1)))>>)) :
                     inner \in InnerIfs } }

WalkLists ==
  { <<<<a>>>> : a \in InnerIfs \cup MiddleIfs \cup OuterIfs }
  \cup { << <<a>>, P("case", PyStr(Word.lower)) >> : a \in InnerIfs \cup MiddleIfs }
  \cup { << <<a>>, <<b>> >> : a, b \in InnerIfs }
  \cup { << P("repeat", Dict1("count", PyInt(2))), <<a>> >> : a \in MiddleIfs }

\* SpecWalk: one log call of a logger whose format is one template segment
\* with a parameter list of WalkLists; a walk that has begun goes on
WalkInit ==
  /\ EngineInit
  /\ groups = Unused
  /\ handler = Unused
  /\ painter = Unused
  /\ rs_format \in { <<Template("wrapfunc", ps)>> : ps \in WalkLists }
  /\ columns \in Widths
  /\ wrapper = Unused
  /\ renderer = Unused
  /\ stripper = Unused
  /\ threads = Unused
  /\ self_repr_id = Unused
  /\ rs_metadata = Unused
  /\ rs_filtering = Unused
  /\ caller = Unused
  /\ logger = Unused

WalkNext ==
  \/ \E c \in Calls : returned = Unused /\ LogStart(c.level, c.metadata)
  \/ SegmentBegin
  \/ WalkStep
  \/ Emit
  \/ Finish

SpecWalk == WalkInit /\ [][WalkNext]_vars /\ WF_vars(WalkStep)

\* the number of directives the if directive `parameter` splices in at the
\* width, by the code of the if directive itself
SplicedBy(parameter, width) ==
  IF parameter[1].k # "if" THEN 0
  ELSE Len(If(NewWalk(<<>>, <<>>), parameter[1].v, width, 0).parameters)

RECURSIVE SplicedUpTo(_, _, _)
SplicedUpTo(directives, width, n) ==
  IF n = 0 THEN 0
  ELSE SplicedBy(directives[n], width) + SplicedUpTo(directives, width, n - 1)

\* C26: a walk that has begun ends; the directives it has processed are, in
\* order and once each, the first ones of the working list, at its end all
\* of them; and there are as many as the segment had plus those that the
\* true if directives among them hold in their actions.
C26_WalkEndsEachOnce ==
  /\ [](pc \in {"walk", "emit"} /\ ~raised =>
          /\ Len(applied) <= Len(walk.parameters)
          /\ applied = SubSeq(walk.parameters, 1, Len(applied)))
  /\ [](pc = "emit" /\ ~raised =>
          /\ applied = walk.parameters
          /\ Len(applied) = Len(rs_format[seg].parameters)
                            + SplicedUpTo(applied, seg_width, Len(applied)))
  /\ ((pc = "walk") ~> (pc # "walk"))

\* the walk of a segment with one directive has ended after three if
\* directives, two of them spliced in, and the directives of the innermost
C26_NestedIfsWalked ==
  /\ pc = "emit"
  /\ ~raised
  /\ Len(rs_format[seg].parameters) = 1
  /\ Cardinality({ n \in 1..Len(applied) : applied[n][1].k = "if" }) = 3
  /\ Len(applied) >= 6

-----------------------------------------------------------------------------
(* Breakpoint conditions with an end left out, at small and at very large  *)
(* terminal widths (shutil.get_terminal_size takes COLUMNS as it is).      *)

BreakpointWidths == {0, 70, 95, 9998, 9999, 10000}

BreakpointBounds ==
  { NoKeys, [min |-> PyInt(95)], [max |-> PyInt(95)], [min |-> PyInt(70), max |-> PyInt(9999)],
    [min |-> PyInt(70), max |-> PyInt(10001)] }

BreakpointFormats ==
  { <<Template("wrapfunc", <<P("if", BreakpointIf(b, a))>>)>> :
      b \in BreakpointBounds,
      a \in { << Item("case", PyStr(Word.upper)) >>,
              << Item("affix", Dict1("prefix", PyStr(<<":">>))),
                 Item("case", PyStr(Word.upper)) >> } }

\* SpecBreakpoint: one log call of a logger whose one segment has one if
\* directive with a breakpoint condition, at any width of BreakpointWidths
BreakpointInit ==
  /\ EngineInit
  /\ groups = Unused
  /\ handler = Unused
  /\ painter = Unused
  /\ rs_format \in BreakpointFormats
  /\ columns \in BreakpointWidths
  /\ wrapper = Unused
  /\ renderer = Unused
  /\ stripper = Unused
  /\ threads = Unused
  /\ self_repr_id = Unused
  /\ rs_metadata = Unused
  /\ rs_filtering = Unused
  /\ caller = Unused
  /\ logger = Unused

BreakpointNext ==
  \/ \E c \in Calls : returned = Unused /\ LogStart(c.level, c.metadata)
  \/ SegmentBegin
  \/ WalkStep
  \/ Emit
  \/ Finish

SpecBreakpoint == BreakpointInit /\ [][BreakpointNext]_vars

\* the bounds and the action of the if directive of the segment
BoundsOf(segment) == segment.parameters[1][1].v.d.condition.d.value.d
ActionOf(segment) == segment.parameters[1][1].v.d.action.d.value.items

\* the walk has spliced the action of the segment's if directive in
ActionSpliced ==
  walk.parameters = rs_format[1].parameters \o
                    [n \in 1..Len(ActionOf(rs_format[1])) |-> <<ActionOf(rs_format[1])[n]>>]

\* C27: at the end of the walk, an if directive whose breakpoint has no max
\* has spliced its action in exactly when the width is at least its min (0
\* if it has none either).
C27_NoMaxNoUpperLimit ==
  (pc = "emit" /\ seg = 1 /\ ~raised /\ "max" \notin DOMAIN BoundsOf(rs_format[1])) =>
    LET bounds == BoundsOf(rs_format[1])
        lowest == IF "min" \in DOMAIN bounds THEN bounds.min.n ELSE 0
    IN  ActionSpliced <=> seg_width >= lowest

\* at 9999 columns an if directive whose breakpoint has neither min nor max
\* has left its action out
C27_ActionLeftOutAt9999 ==
  /\ pc = "emit"
  /\ seg = 1
  /\ ~raised
  /\ seg_width = 9999
  /\ BoundsOf(rs_format[1]) = NoKeys
  /\ walk.parameters = rs_format[1].parameters

-----------------------------------------------------------------------------
(* RGB triples as the foreground or background colour of a value.          *)

\* components at the ends, at the multiples of 51 and next to the points
\* where the nearest level changes (25.5, 76.5, 127.5, ...)
Components == {0, 25, 26, 51, 127, 128, 229, 230, 255}

\* SpecRgb: the value "a" is coloured with any triple over Components, as
\* its foreground or as its background
RgbInit ==
  /\ EngineInit
  /\ groups = Unused
  /\ handler = Unused
  /\ rs_format = <<>>
  /\ columns = 100
  /\ wrapper = Unused
  /\ renderer = Unused
  /\ stripper = Unused
  /\ threads = Unused
  /\ self_repr_id = Unused
  /\ rs_metadata = Unused
  /\ rs_filtering = Unused
  /\ caller = Unused
  /\ logger = Unused
  /\ \E r \in Components, g \in Components, b \in Components,
        side \in {"foreground", "background"} :
       painter = [pc |-> "called", r |-> r, g |-> g, b |-> b, side |-> side,
                  text |-> <<>>]

\* lines 870-894: colorize(value, color, style) with the triple on one
\* side, no colour on the other and no style
Paint ==
  /\ painter.pc = "called"
  /\ LET triple == PyTuple(<<painter.r, painter.g, painter.b>>)
         color == IF painter.side = "foreground"
                  THEN [foreground |-> triple, background |-> PyTuple(<<>>)]
                  ELSE [foreground |-> PyTuple(<<>>), background |-> triple]
     IN  painter' = [painter EXCEPT !.pc = "painted",
                                    !.text = colorize(<<"a">>, color, <<>>)]
  /\ UNCHANGED <<engineVars, wrapper, renderer, stripper, threads, self_repr_id,
                 rs_metadata, rs_filtering, caller, logger, handler, groups>>

RgbNext == Paint

SpecRgb == RgbInit /\ [][RgbNext]_vars

\* round(5x / 255), to the nearest integer (no x in 0..255 is half-way)
Nearest(x) == (10 * x + 255) \div 510

\* C28: the text starts with the 256-colour sequence of index
\* 16 + 36*round(5r/255) + 6*round(5g/255) + round(5b/255), for the
\* foreground (38) or the background (48).
C28_NearestLevel ==
  painter.pc = "painted" =>
    painter.text =
      <<ESC, "[">> \o (IF painter.side = "foreground" THEN <<"3", "8">> ELSE <<"4", "8">>)
        \o <<";", "5", ";">>
        \o IntToStr(16 + 36 * Nearest(painter.r) + 6 * Nearest(painter.g) + Nearest(painter.b))
        \o <<"m", "a">> \o RESET_ALL

\* the foreground (128, 128, 128), whose nearest levels are 3, 3, 3 (index
\* 145), is painted with index 102, that of the levels 2, 2, 2
C28_GreyFloored ==
  /\ painter.pc = "painted"
  /\ painter.side = "foreground"
  /\ painter.r = 128 /\ painter.g = 128 /\ painter.b = 128
  /\ painter.text = <<ESC, "[", "3", "8", ";", "5", ";", "1", "0", "2", "m", "a">> \o RESET_ALL

-----------------------------------------------------------------------------
(* The stream handlers of zenif.log (handlers.py): the rulesets of the     *)
(* streams.  Every ruleset is deep-copied on its way in, so a ruleset is   *)
(* a value: a function from category to a function from setting to value.  *)

\* Ruleset._merge_with_defaults(rules, defaults)
merge_with_defaults(rules, defaults) ==
  [category \in DOMAIN defaults \cup DOMAIN rules |->
     IF category \notin DOMAIN rules THEN defaults[category]
     ELSE IF category \in DOMAIN defaults
          THEN update(defaults[category], rules[category])
          ELSE rules[category]]

\* Ruleset(rules, defaults)._rules
Ruleset(rules, defaults) == merge_with_defaults(rules, defaults)

\* the streams, and the rulesets that callers pass
HandlerStreams == {"stdout", "stderr"}
PassedRulesets ==
  { <<>>,
    [filtering |-> [min_level |-> 3]],
    [filtering |-> [exclude_messages |-> << <<"x">> >>]],
    [log_line |-> [format |-> "short"]],
    [filtering |-> [min_level |-> 3], log_line |-> [format |-> "short"]] }

\* a handler record without the stream
Without(rulesets, stream) ==
  [s \in DOMAIN rulesets \ {stream} |-> rulesets[s]]
With(rulesets, stream, ruleset) ==
  [s \in DOMAIN rulesets \cup {stream} |-> IF s = stream THEN ruleset ELSE rulesets[s]]

\* StreamHandler.add(stream, ruleset): the handler after the call
add(h, stream, ruleset) ==
  IF stream \in Range(h.output_streams) THEN h
  ELSE [h EXCEPT !.output_streams = Append(@, stream),
                 !.stream_rulesets = With(@, stream, Ruleset(ruleset, h.defaults))]

\* BaseHandler.remove(stream)
remove(h, stream) ==
  IF stream \notin Range(h.output_streams) THEN h
  ELSE [h EXCEPT !.output_streams = SelectSeq(@, LAMBDA s : s # stream),
                 !.stream_rulesets = Without(@, stream)]

\* StreamHandler.modify(stream, ruleset, use_original); raised is the
\* ValueError for a stream without a ruleset
modify(h, stream, ruleset, use_original) ==
  IF stream \notin DOMAIN h.stream_rulesets THEN [h EXCEPT !.raised = TRUE]
  ELSE LET new_rules == update(IF use_original THEN h.defaults
                                ELSE h.stream_rulesets[stream], ruleset)
       IN  [h EXCEPT !.stream_rulesets[stream] = Ruleset(new_rules, h.defaults)]

\* no call yet
NoCall == [op |-> "none"]

\* SpecHandler: a StreamHandler with the built-in defaults, on which
\* streams are added, removed and modified
HandlerInit ==
  /\ EngineInit
  /\ groups = Unused
  /\ rs_format = <<>>
  /\ columns = 100
  /\ wrapper = Unused
  /\ renderer = Unused
  /\ stripper = Unused
  /\ threads = Unused
  /\ self_repr_id = Unused
  /\ rs_metadata = Unused
  /\ rs_filtering = Unused
  /\ caller = Unused
  /\ logger = Unused
  /\ painter = Unused
  /\ handler = [defaults |-> BuiltinDefaults, output_streams |-> <<>>,
                stream_rulesets |-> <<>>, raised |-> FALSE, call |-> NoCall]

HandlerAdd(stream, ruleset) ==
  /\ handler' = [add(handler, stream, ruleset) EXCEPT
                   !.raised = FALSE,
                   !.call = [op |-> "add", stream |-> stream]]
  /\ UNCHANGED <<engineVars, wrapper, renderer, stripper, threads, self_repr_id,
                 rs_metadata, rs_filtering, caller, logger, painter, groups>>

HandlerRemove(stream) ==
  /\ handler' = [remove(handler, stream) EXCEPT
                   !.raised = FALSE,
                   !.call = [op |-> "remove", stream |-> stream]]
  /\ UNCHANGED <<engineVars, wrapper, renderer, stripper, threads, self_repr_id,
                 rs_metadata, rs_filtering, caller, logger, painter, groups>>

\* the call keeps what the rulesets were before it
HandlerModify(stream, ruleset, use_original) ==
  /\ handler' = [modify([handler EXCEPT !.raised = FALSE], stream, ruleset, use_original)
                   EXCEPT !.call = [op |-> "modify", stream |-> stream,
                                    ruleset |-> ruleset, use_original |-> use_original,
                                    before |-> handler.stream_rulesets]]
  /\ UNCHANGED <<engineVars, wrapper, renderer, stripper, threads, self_repr_id,
                 rs_metadata, rs_filtering, caller, logger, painter, groups>>

HandlerNext ==
  \/ \E stream \in HandlerStreams, ruleset \in PassedRulesets : HandlerAdd(stream, ruleset)
  \/ \E stream \in HandlerStreams : HandlerRemove(stream)
  \/ \E stream \in HandlerStreams, ruleset \in PassedRulesets, use_original \in BOOLEAN :
       HandlerModify(stream, ruleset, use_original)

SpecHandler == HandlerInit /\ [][HandlerNext]_vars

\* the ruleset names the setting of the category
Names(ruleset, category, setting) ==
  category \in DOMAIN ruleset /\ setting \in DOMAIN ruleset[category]

\* C29: after modify(stream, ruleset, use_original=False) on a stream of
\* the handler, the stream's settings are those of `ruleset` where it names
\* them and what they were before everywhere else, and the other streams
\* have the rulesets they had.
C29_ModifyChangesNamedOnly ==
  (handler.call.op = "modify" /\ ~handler.call.use_original /\ ~handler.raised) =>
    LET stream == handler.call.stream
        earlier == handler.call.before
        after == handler.stream_rulesets
    IN  /\ DOMAIN after = DOMAIN earlier
        /\ \A s \in DOMAIN earlier \ {stream} : after[s] = earlier[s]
        /\ DOMAIN after[stream] = DOMAIN earlier[stream]
        /\ \A category \in DOMAIN earlier[stream] :
             /\ DOMAIN after[stream][category] = DOMAIN earlier[stream][category]
             /\ \A setting \in DOMAIN earlier[stream][category] :
                  after[stream][category][setting] =
                    IF Names(handler.call.ruleset, category, setting)
                    THEN handler.call.ruleset[category][setting]
                    ELSE earlier[stream][category][setting]

\* modify(stdout, {"filtering": {"min_level": 3}}) on a stream that
\* excluded "x" has put its exclude_messages back to the default
C29_SettingReverted ==
  /\ handler.call.op = "modify"
  /\ ~handler.call.use_original
  /\ ~handler.raised
  /\ handler.call.stream = "stdout"
  /\ DOMAIN handler.call.ruleset = {"filtering"}
  /\ DOMAIN handler.call.ruleset.filtering = {"min_level"}
  /\ handler.call.before["stdout"].filtering.exclude_messages = << <<"x">> >>
  /\ handler.stream_rulesets["stdout"].filtering.exclude_messages = <<>>
  /\ handler.stream_rulesets["stdout"].filtering.min_level = 3

-----------------------------------------------------------------------------
(* SHGroup objects that share the StreamHandler of one Logger.  FHGroup    *)
(* has the same add, remove and remove_all over FileHandler.               *)

Groups == {"first", "second"}

\* an item of add and remove is a stream or a group
IsGroup(item) == item \in Groups

\* SHGroup.unwrap_shgroups((item,)) for the streams lists `all`
unwrap_shgroups(all, item) == IF IsGroup(item) THEN all[item] ELSE <<item>>

RECURSIVE AddItems(_, _, _)
\* the loop of SHGroup.add over the unwrapped items from the n-th on:
\* [streams, h]
AddItems(st, items, n) ==
  IF n > Len(items) THEN st
  ELSE AddItems(IF items[n] \in Range(st.streams) THEN st
                ELSE [streams |-> Append(st.streams, items[n]),
                      h |-> add(st.h, items[n], <<>>)],
                items, n + 1)

RECURSIVE RemoveItems(_, _, _)
\* the loop of SHGroup.remove
RemoveItems(st, items, n) ==
  IF n > Len(items) THEN st
  ELSE RemoveItems(IF items[n] \notin Range(st.streams) THEN st
                   ELSE [streams |-> SelectSeq(st.streams, LAMBDA s : s # items[n]),
                         h |-> remove(st.h, items[n])],
                   items, n + 1)

RECURSIVE RemoveEach(_, _, _)
\* the loop of SHGroup.remove_all
RemoveEach(h, streams, n) ==
  IF n > Len(streams) THEN h
  ELSE RemoveEach(remove(h, streams[n]), streams, n + 1)

RECURSIVE ModifyEach(_, _, _, _, _)
\* the loop of SHGroup.modify, left by the first ValueError
ModifyEach(h, streams, ruleset, use_original, n) ==
  IF n > Len(streams) \/ h.raised THEN h
  ELSE ModifyEach(modify(h, streams[n], ruleset, use_original), streams, ruleset,
                  use_original, n + 1)

\* SpecGroups: the Logger's StreamHandler with sys.stdout added to it
\* (core.py line 91) and two groups made by Logger.shgroup()
GroupsInit ==
  /\ EngineInit
  /\ rs_format = <<>>
  /\ columns = 100
  /\ wrapper = Unused
  /\ renderer = Unused
  /\ stripper = Unused
  /\ threads = Unused
  /\ self_repr_id = Unused
  /\ rs_metadata = Unused
  /\ rs_filtering = Unused
  /\ caller = Unused
  /\ logger = Unused
  /\ painter = Unused
  /\ handler = add([defaults |-> BuiltinDefaults, output_streams |-> <<>>,
                    stream_rulesets |-> <<>>, raised |-> FALSE, call |-> NoCall],
                   "stdout", BuiltinDefaults)
  /\ groups = [g \in Groups |-> <<>>]

GroupAdd(g, item) ==
  /\ LET st == AddItems([streams |-> groups[g], h |-> handler],
                        unwrap_shgroups(groups, item), 1)
     IN  /\ groups' = [groups EXCEPT ![g] = st.streams]
         /\ handler' = [st.h EXCEPT !.raised = FALSE, !.call = [op |-> "add", group |-> g]]
  /\ UNCHANGED <<engineVars, wrapper, renderer, stripper, threads, self_repr_id,
                 rs_metadata, rs_filtering, caller, logger, painter>>

GroupRemove(g, item) ==
  /\ LET st == RemoveItems([streams |-> groups[g], h |-> handler],
                           unwrap_shgroups(groups, item), 1)
     IN  /\ groups' = [groups EXCEPT ![g] = st.streams]
         /\ handler' = [st.h EXCEPT !.raised = FALSE, !.call = [op |-> "remove", group |-> g]]
  /\ UNCHANGED <<engineVars, wrapper, renderer, stripper, threads, self_repr_id,
                 rs_metadata, rs_filtering, caller, logger, painter>>

GroupRemoveAll(g) ==
  /\ handler' = [RemoveEach(handler, groups[g], 1) EXCEPT
                   !.raised = FALSE, !.call = [op |-> "remove_all", group |-> g]]
  /\ groups' = [groups EXCEPT ![g] = <<>>]
  /\ UNCHANGED <<engineVars, wrapper, renderer, stripper, threads, self_repr_id,
                 rs_metadata, rs_filtering, caller, logger, painter>>

GroupModify(g, ruleset, use_original) ==
  /\ handler' = [ModifyEach([handler EXCEPT !.raised = FALSE], groups[g], ruleset,
                            use_original, 1)
                   EXCEPT !.call = [op |-> "modify", group |-> g]]
  /\ UNCHANGED <<engineVars, wrapper, renderer, stripper, threads, self_repr_id,
                 rs_metadata, rs_filtering, caller, logger, painter, groups>>

GroupsNext ==
  \/ \E g \in Groups, item \in HandlerStreams \cup Groups : GroupAdd(g, item)
  \/ \E g \in Groups, item \in HandlerStreams \cup Groups : GroupRemove(g, item)
  \/ \E g \in Groups : GroupRemoveAll(g)
  \/ \E g \in Groups, use_original \in BOOLEAN :
       GroupModify(g, [filtering |-> [min_level |-> 3]], use_original)

SpecGroups == GroupsInit /\ [][GroupsNext]_vars

\* C30: every stream that a group lists has a ruleset in the handler, and
\* no modify of a group has raised.
C30_ListedStreamsRegistered ==
  /\ \A g \in Groups : \A n \in 1..Len(groups[g]) :
       groups[g][n] \in DOMAIN handler.stream_rulesets
  /\ ~handler.raised

\* the second group lists stdout, which a remove of the first has taken from the
\* handler, and the modify of the second has raised ValueError
C30_ModifyRaised ==
  /\ handler.call = [op |-> "modify", group |-> "second"]
  /\ handler.raised
  /\ groups["second"] = <<"stdout">>
  /\ groups["first"] = <<>>
  /\ "stdout" \notin DOMAIN handler.stream_rulesets
====
